---- MODULE Spec2Model ----
(***************************************************************************)
(* Session-based authentication of the expense tracker (src/main.go):      *)
(* registerHandler, loginHandler, logoutHandler, withAuth,                 *)
(* authenticateAndRefreshSession and issueSession, running as concurrent   *)
(* requests against one SQLite store.                                      *)
(*                                                                         *)
(* Time is counted in ticks.  The store keeps timestamps in timeFormat,    *)
(* which has a resolution of one second = TicksPerSecond ticks, while      *)
(* time.Now() has tick resolution.  sessionTTL is scaled down to a few     *)
(* seconds; it stays a whole number of seconds and a multiple of three.    *)
(*                                                                         *)
(* Raw session tokens are the integers 1, 2, ...  in the order in which    *)
(* generateSessionToken draws them (32 random bytes: every draw is         *)
(* fresh).  hashSessionToken is injective and its range (64 hex digits)    *)
(* is disjoint from the raw tokens (43 base64url characters).              *)
(*                                                                         *)
(* SQLite serialises writers: the first write of a transaction takes the   *)
(* write lock (txOwner) and keeps it up to Commit or Rollback; statements  *)
(* of other connections read the committed tables and their writes wait.   *)
(* Under Spec every store statement succeeds; SpecFault adds a failing     *)
(* session lookup, a failing refresh and the failing statements of         *)
(* issueSession.  SpecLogin is Spec started with a registered user.        *)
(* SpecData runs the resource handlers, SpecMat the materializer next to   *)
(* the handlers of the recurring definitions, SpecMatFault the same with   *)
(* failing steps of the materializer.                                      *)
(*                                                                         *)
(* resp is the response (and, for withAuth, the handler invocation) that   *)
(* the last step produced; it is delivered before the next step, so in a   *)
(* state with resp # NoResp the tables and the clock are exactly those the *)
(* responding step left.                                                   *)
(***************************************************************************)
EXTENDS Integers, FiniteSets, Sequences, TLC

\* ---------------------------------------------------------------- bounds
MaxUsers == 2   \* rows the users table may reach
MaxTokens == 2  \* sessions generateSessionToken may be asked for
MaxNow == 7     \* last tick of the clock: one tick past the first expiry
MaxRecords == 2 \* rows the five record tables may be given altogether
MaxDays == 2    \* days the materializer's clock may advance
MaxGenerated == 2 \* expenses the materializer may generate

\* ------------------------------------------------------------- constants
TicksPerSecond == 2
sessionTTL == 6
sessionRefreshDelta == sessionTTL \div 3
HashOffset == 100

\* the request slots: two requests are served concurrently
Procs == {1, 2}
RawTokens == 1..MaxTokens

\* cookie values a client can present
NoCookie == -1
EmptyCookie == 0
GarbageCookie == 99

\* ------------------------------------------------------ pure functions
\* t.Format(timeFormat): the stored text keeps whole seconds only
formatTime(t) == t \div TicksPerSecond

\* parseTimestamp of a stored text: the instant at the start of that second
parseTimestamp(s) == s * TicksPerSecond

hashSessionToken(token) == token + HashOffset

\* strings.TrimSpace(strings.ToLower(email)) followed by mail.ParseAddress,
\* on the request emails the model draws; "" stands for the error result
EmailInputs == {"a@x.io", " A@X.io ", "b@x.io", "not-an-email", ""}

\* strings.TrimSpace(strings.ToLower(email)), also on the addresses a
\* sanitizeEmail without ToLower would let through
TrimLower(email) ==
    CASE email = " A@X.io " -> "a@x.io"
      [] email = "A@X.io" -> "a@x.io"
      [] OTHER -> email

\* the addresses sanitizeEmail can return
NormalEmails == {"a@x.io", "b@x.io"}

\* mutant: sanitizeEmail that trims but keeps the case
sanitizeEmailKeepCase(email) ==
    CASE email = "a@x.io" -> "a@x.io"
      [] email = " A@X.io " -> "A@X.io"
      [] email = "b@x.io" -> "b@x.io"
      [] OTHER -> ""

sanitizeEmail(email) ==
    CASE email = "a@x.io" -> "a@x.io"
      [] email = " A@X.io " -> "a@x.io"
      [] email = "b@x.io" -> "b@x.io"
      [] OTHER -> ""

\* utf8.RuneCountInString on the request passwords the model draws
RuneCount(password) ==
    CASE password = "correct-horse" -> 13
      [] password = "battery-staple" -> 14
      [] password = "short" -> 5
      [] password = "            " -> 12
      [] OTHER -> 0

IsBlank(password) == password \in {"", "            "}

validatePassword(password) ==
    /\ ~IsBlank(password)
    /\ RuneCount(password) >= 12
    /\ RuneCount(password) <= 128

\* bcrypt.GenerateFromPassword / bcrypt.CompareHashAndPassword
bcryptHash(password) == <<"bcrypt", password>>
bcryptCompare(hash, password) == hash = bcryptHash(password)

\* ------------------------------------------------------------------ state
VARIABLES
    now,        \* time.Now(), in ticks
    users,      \* table users: rows [id, email, password_hash]
    nextUserID, \* AUTOINCREMENT counter of users.id
    sessions,   \* table sessions (committed): rows [token_hash, user_id, expires_at]
    txOwner,    \* the request whose transaction holds the write lock, 0 if none
    txSessions, \* table sessions as seen inside that transaction
    nextToken,  \* the next value generateSessionToken draws
    req,        \* per request slot: position in its handler and its locals
    resp,       \* the response the last step sent, until Deliver (NoResp: none)
    issuedTo,   \* history: raw token -> user it was handed to (0: to nobody yet)
    latest,     \* history: user -> raw token of the session issued last (0: none)
    loggedOut,  \* history: raw tokens a completed logout has carried
    registered, \* history: normalized email -> number of 201 answers to register
    accounts,   \* table accounts: rows [id, user_id, balance]
    expenses,   \* table expenses: rows [id, user_id, amount, category, note, date, account_id]
    incomes,    \* table incomes: rows [id, user_id, amount, account_id]
    budgets,    \* table budgets: rows [id, user_id, amount]
    recurring,  \* table recurring_expenses: rows [id, user_id, amount, category, note, frequency, next_due_date]
    nextID,     \* AUTOINCREMENT counter of each of these five tables
    tx,         \* the open transaction of createExpense or createIncome (NoTx: none)
    out,        \* what a resource handler answered or the materializer
                \* committed in the last step, until Reply (NoOut: nothing)
    deleted,    \* history: <<table, id>> of the records a DELETE answered 204 for
    today,      \* time.Now() of the materializer, in days since StartDay
    mat,        \* processRecurringExpenses: its position and locals
    hist        \* history of the materializer, see NoHist

authVars == <<now, users, nextUserID, sessions, txOwner, txSessions, nextToken,
              req, resp, issuedTo, latest, loggedOut, registered>>

dataVars == <<accounts, expenses, incomes, budgets, recurring, nextID, tx, out,
              deleted, today, mat, hist>>

vars == <<authVars, dataVars>>

UserIDs == 1..MaxUsers

IdleReq ==
    [pc |-> "idle", kind |-> "none", cookie |-> NoCookie, email |-> "",
     password |-> "", userID |-> 0, rawToken |-> 0, expiresAt |-> 0, stale |-> FALSE,
     revoked |-> FALSE]

\* nothing was sent
NoResp ==
    [kind |-> "none", cookie |-> NoCookie, email |-> "", password |-> "",
     status |-> 0,
     body |-> "", handlerUser |-> 0, found |-> FALSE, userID |-> 0,
     expiresAt |-> 0, reads |-> 0, writes |-> 0, setCookie |-> NoCookie,
     cookieExpires |-> 0, before |-> {}, stale |-> FALSE, revoked |-> FALSE,
     fault |-> "none"]

\* The response of request r. status is the HTTP status; handlerUser is
\* the user id the wrapped handler was invoked with (0: it was not
\* invoked); found tells that the session lookup returned a row; reads
\* and writes count the store statements of the request; setCookie is the
\* Set-Cookie value (NoCookie: header absent, EmptyCookie: cookie
\* cleared); before is the sessions table as it was before the step; email
\* and password are the sanitized email and the password of a register or
\* login request; body is the text
\* of an http.Error ("" where the model does not tell bodies apart); fault
\* names the store statement of the request that failed.
Respond(r, status, handlerUser, found, reads, writes, setCookie, cookieExpires) ==
    [kind |-> r.kind, cookie |-> r.cookie, email |-> r.email,
     password |-> r.password, status |-> status,
     body |-> "", handlerUser |-> handlerUser, found |-> found,
     userID |-> r.userID, expiresAt |-> r.expiresAt, reads |-> reads,
     writes |-> writes, setCookie |-> setCookie,
     cookieExpires |-> cookieExpires, before |-> sessions, stale |-> r.stale,
     revoked |-> r.revoked, fault |-> "none"]

\* http.Error(w, body, status) of request r
RespondError(r, status, body, reads, writes) ==
    [Respond(r, status, 0, FALSE, reads, writes, NoCookie, 0) EXCEPT !.body = body]

\* the five tables of owned records
Tables == {"expenses", "budgets", "recurring_expenses", "incomes", "accounts"}

\* no resource handler has sent anything
NoOut == [op |-> "none"]

\* no createExpense or createIncome transaction is open
NoTx == [pc |-> "none"]

\* the materializer between two runs; lastRun is the day of its last run,
\* rows the rows its cursor has yet to deliver
IdleMat == [pc |-> "idle", lastRun |-> 0, rows |-> {}]

\* What the materializer has done so far: gen holds, for every expense it
\* committed, the definition (def), the date and the id of the expense and
\* the day of the run (run); touched holds the definitions whose
\* next_due_date a PUT has changed; read, done and failed hold the
\* definitions the cursor of the current (or last) run was given, those the
\* run committed and those on which a step of the run failed.
NoHist == [gen |-> {}, touched |-> {}, read |-> {}, done |-> {}, failed |-> {}]

\* the positions at which the materializer's transaction holds the write lock
MatTxSteps == {"inserted", "updated"}

\* the store after createTables and ensureAccountColumns on a new database
DataInit ==
    /\ accounts = {}
    /\ expenses = {}
    /\ incomes = {}
    /\ budgets = {}
    /\ recurring = {}
    /\ nextID = [t \in Tables |-> 1]
    /\ tx = NoTx
    /\ out = NoOut
    /\ deleted = {}
    /\ today = 0
    /\ mat = IdleMat
    /\ hist = NoHist

Init ==
    /\ now = 0
    /\ users = {}
    /\ nextUserID = 1
    /\ sessions = {}
    /\ txOwner = 0
    /\ txSessions = {}
    /\ nextToken = 1
    /\ req = [p \in Procs |-> IdleReq]
    /\ resp = NoResp
    /\ issuedTo = [t \in RawTokens |-> 0]
    /\ latest = [u \in UserIDs |-> 0]
    /\ loggedOut = {}
    /\ registered = [e \in NormalEmails |-> 0]
    /\ DataInit

\* the tokens whose user has since been issued a newer session
Superseded == {t \in RawTokens : issuedTo[t] # 0 /\ latest[issuedTo[t]] # t}

\* the cookie values a client can send: none, empty, junk, a raw token it
\* has been handed, or a token_hash read off the sessions table
CookieInputs ==
    {NoCookie, EmptyCookie, GarbageCookie}
        \cup {t \in RawTokens : issuedTo[t] # 0}
        \cup {s.token_hash : s \in sessions}

\* SELECT ... FROM sessions WHERE token_hash = ?
SessionRows(table, tokenHash) == {s \in table : s.token_hash = tokenHash}

\* DELETE FROM sessions WHERE token_hash = ?
DeleteByHash(table, tokenHash) == {s \in table : s.token_hash # tokenHash}

\* DELETE FROM sessions WHERE user_id = ?
DeleteByUser(table, userID) == {s \in table : s.user_id # userID}

\* UPDATE sessions SET expires_at = ? WHERE token_hash = ?
UpdateExpiry(table, tokenHash, expiresAt) ==
    {IF s.token_hash = tokenHash THEN [s EXCEPT !.expires_at = expiresAt] ELSE s
        : s \in table}

\* the clock ticks
Tick ==
    /\ resp = NoResp
    /\ now < MaxNow
    /\ now' = now + 1
    /\ resp' = NoResp
    /\ UNCHANGED <<users, nextUserID, sessions, txOwner, txSessions, nextToken,
                   req, issuedTo, latest, loggedOut, registered>>
    /\ UNCHANGED dataVars

\* the response of the last step reaches its client
Deliver ==
    /\ resp # NoResp
    /\ resp' = NoResp
    /\ UNCHANGED <<now, users, nextUserID, sessions, txOwner, txSessions,
                   nextToken, req, issuedTo, latest, loggedOut, registered>>
    /\ UNCHANGED dataVars

\* ------------------------------------------------------- session issuing
\* the locals of a handler as it starts
StartReq(kind, cookie) ==
    [IdleReq EXCEPT !.kind = kind, !.cookie = cookie,
                    !.stale = cookie \in Superseded,
                    !.revoked = cookie \in loggedOut]

\* issueSession up to db.Begin: generateSessionToken draws rawToken and
\* expiresAt is time.Now().UTC().Add(sessionTTL)
BeginIssue(r, userID) ==
    [r EXCEPT !.pc = "issue_delete", !.userID = userID,
              !.rawToken = nextToken, !.expiresAt = now + sessionTTL]

\* mutant: the session row keyed by the raw token
NewSessionRowRawKey(rawToken, userID, expiresAt) ==
    [token_hash |-> rawToken, user_id |-> userID,
     expires_at |-> formatTime(expiresAt)]

\* the row issueSession inserts
NewSessionRow(rawToken, userID, expiresAt) ==
    [token_hash |-> hashSessionToken(rawToken), user_id |-> userID,
     expires_at |-> formatTime(expiresAt)]

\* mutant: issueSession without its DELETE
IssueDeleteNothing(table, userID) == table

\* mutant: issueSession purging only the user's expired sessions
IssueDeleteExpiredOnly(table, userID) ==
    {s \in table : s.user_id # userID \/ parseTimestamp(s.expires_at) >= now}

\* tx.Exec("DELETE FROM sessions WHERE user_id = ?"): the transaction's
\* view of the table after the statement
IssueDeleteEffect(table, userID) == DeleteByUser(table, userID)

\* POST /auth/register
registerHandler(p, email, password) ==
    LET e == sanitizeEmail(email)
        r == [StartReq("register", NoCookie) EXCEPT !.email = e,
                                                    !.password = password]
    IN  /\ resp = NoResp
        /\ req[p].pc = "idle"
        /\ IF e = "" \/ ~validatePassword(password)
           THEN /\ resp' = Respond(r, 400, 0, FALSE, 0, 0, NoCookie, 0)
                /\ UNCHANGED <<users, nextUserID, nextToken, req>>
           ELSE /\ txOwner = 0
                /\ IF \E u \in users : u.email = e
                   THEN /\ resp' = RespondError(r, 409, "Email already registered", 0, 1)
                        /\ UNCHANGED <<users, nextUserID, nextToken, req>>
                   ELSE /\ Cardinality(users) < MaxUsers
                        /\ nextToken <= MaxTokens
                        /\ users' = users \cup
                               {[id |-> nextUserID, email |-> e,
                                 password_hash |-> bcryptHash(password)]}
                        /\ nextUserID' = nextUserID + 1
                        /\ nextToken' = nextToken + 1
                        /\ req' = [req EXCEPT ![p] = BeginIssue(r, nextUserID)]
                        /\ resp' = NoResp
        /\ UNCHANGED <<now, sessions, txOwner, txSessions, issuedTo, latest,
                       loggedOut, registered>>
        /\ UNCHANGED dataVars

\* mutant: a login failure that tells whether the account exists
LoginFailureBodyTelling(userFound) ==
    IF userFound THEN "Wrong password" ELSE "No such user"

\* the body of loginHandler's 401, with or without a users row for the email
LoginFailureBody(userFound) == "Invalid credentials"

\* POST /auth/login
loginHandler(p, email, password) ==
    LET e == sanitizeEmail(email)
        r == [StartReq("login", NoCookie) EXCEPT !.email = e,
                                                 !.password = password]
        rows == {u \in users : u.email = e}
    IN  /\ resp = NoResp
        /\ req[p].pc = "idle"
        /\ IF e = "" \/ IsBlank(password)
           THEN /\ resp' = RespondError(r, 401, LoginFailureBody(FALSE), 0, 0)
                /\ UNCHANGED <<nextToken, req>>
           ELSE IF rows = {}
           THEN /\ resp' = RespondError(r, 401, LoginFailureBody(FALSE), 1, 0)
                /\ UNCHANGED <<nextToken, req>>
           ELSE LET u == CHOOSE u \in rows : TRUE
                IN  IF ~bcryptCompare(u.password_hash, password)
                    THEN /\ resp' = RespondError(r, 401, LoginFailureBody(TRUE), 1, 0)
                         /\ UNCHANGED <<nextToken, req>>
                    ELSE /\ nextToken <= MaxTokens
                         /\ nextToken' = nextToken + 1
                         /\ req' = [req EXCEPT ![p] = BeginIssue(r, u.id)]
                         /\ resp' = NoResp
        /\ UNCHANGED <<now, users, nextUserID, sessions, txOwner, txSessions,
                       issuedTo, latest, loggedOut, registered>>
        /\ UNCHANGED dataVars

\* issueSession: tx.Exec(DELETE), the transaction's first write
IssueDelete(p) ==
    /\ resp = NoResp
    /\ req[p].pc = "issue_delete"
    /\ txOwner = 0
    /\ txOwner' = p
    /\ txSessions' = IssueDeleteEffect(sessions, req[p].userID)
    /\ req' = [req EXCEPT ![p].pc = "issue_insert"]
    /\ resp' = NoResp
    /\ UNCHANGED <<now, users, nextUserID, sessions, nextToken, issuedTo,
                   latest, loggedOut, registered>>
    /\ UNCHANGED dataVars

\* the store statements of a register (INSERT INTO users first) or login
\* (SELECT FROM users first) request that has reached Commit
IssueReads(kind) == IF kind = "login" THEN 1 ELSE 0
IssueWrites(kind) == IF kind = "login" THEN 2 ELSE 3

\* issueSession: tx.Exec(INSERT); a primary-key conflict rolls back
IssueInsert(p) ==
    LET row == NewSessionRow(req[p].rawToken, req[p].userID, req[p].expiresAt)
    IN  /\ resp = NoResp
        /\ req[p].pc = "issue_insert"
        /\ txOwner = p
        /\ IF SessionRows(txSessions, row.token_hash) # {}
           THEN /\ txOwner' = 0
                /\ txSessions' = {}
                /\ resp' = Respond(req[p], 500, 0, FALSE,
                                   IssueReads(req[p].kind),
                                   IssueWrites(req[p].kind), NoCookie, 0)
                /\ req' = [req EXCEPT ![p] = IdleReq]
           ELSE /\ txSessions' = txSessions \cup {row}
                /\ req' = [req EXCEPT ![p].pc = "issue_commit"]
                /\ resp' = NoResp
                /\ UNCHANGED txOwner
        /\ UNCHANGED <<now, users, nextUserID, sessions, nextToken, issuedTo,
                       latest, loggedOut, registered>>
        /\ UNCHANGED dataVars

\* mutant: a commit that adds the transaction's rows to the committed ones
CommitSessionsMerged(table, view) == table \cup view

\* tx.Commit: the transaction's view of the sessions table becomes the
\* committed table
CommitSessions(table, view) == view

\* issueSession: tx.Commit, setSessionCookie, and the handler's response
IssueCommit(p) ==
    LET r == req[p]
    IN  /\ resp = NoResp
        /\ r.pc = "issue_commit"
        /\ txOwner = p
        /\ sessions' = CommitSessions(sessions, txSessions)
        /\ txOwner' = 0
        /\ txSessions' = {}
        /\ resp' = Respond(r, IF r.kind = "register" THEN 201 ELSE 200, 0, FALSE,
                           IssueReads(r.kind), IssueWrites(r.kind),
                           r.rawToken, r.expiresAt)
        /\ req' = [req EXCEPT ![p] = IdleReq]
        /\ issuedTo' = [issuedTo EXCEPT ![r.rawToken] = r.userID]
        /\ latest' = [latest EXCEPT ![r.userID] = r.rawToken]
        /\ registered' = IF r.kind = "register"
                          THEN [registered EXCEPT ![TrimLower(r.email)] = @ + 1]
                          ELSE registered
        /\ UNCHANGED <<now, users, nextUserID, nextToken, loggedOut>>
        /\ UNCHANGED dataVars

\* ---------------------------------------------------------------- logout
\* mutant: the check of an empty cookie value left out
CookiePresentUnchecked(cookie) == cookie # NoCookie

\* r.Cookie(sessionCookieName) succeeded and cookie.Value != ""
CookiePresent(cookie) == cookie \notin {NoCookie, EmptyCookie}

\* mutant: logout that only clears the cookie
LogoutKeepsRow(table, cookie) == table

\* what logoutHandler leaves in the sessions table
LogoutEffect(table, cookie) ==
    IF CookiePresent(cookie)
    THEN DeleteByHash(table, hashSessionToken(cookie))
    ELSE table

\* mutant: logout answering 401 when the cookie names no session
LogoutStatusStrict(table, cookie) ==
    IF cookie \in {NoCookie, EmptyCookie}
       \/ SessionRows(table, hashSessionToken(cookie)) = {}
    THEN 401
    ELSE 204

\* the status logoutHandler writes
LogoutStatus(table, cookie) == 204

\* POST /auth/logout
logoutHandler(p, cookie) ==
    /\ resp = NoResp
    /\ req[p].pc = "idle"
    /\ cookie \in CookieInputs
    /\ CookiePresent(cookie) => txOwner = 0
    /\ sessions' = LogoutEffect(sessions, cookie)
    /\ resp' = Respond(StartReq("logout", cookie), LogoutStatus(sessions, cookie),
                       0, FALSE, 0, IF CookiePresent(cookie) THEN 1 ELSE 0,
                       EmptyCookie, 0)
    /\ loggedOut' = loggedOut \cup ({cookie} \cap RawTokens)
    /\ UNCHANGED <<now, users, nextUserID, txOwner, txSessions, nextToken,
                   req, issuedTo, latest, registered>>
    /\ UNCHANGED dataVars

\* ------------------------------------------------------------ middleware
\* mutant: expiry detected only a refresh window late
SessionExpiredLate(nowT, expiresAt) == nowT > expiresAt + sessionRefreshDelta

\* now.After(expiresAt)
SessionExpired(nowT, expiresAt) == nowT > expiresAt

\* mutant: refresh window one tick too short
NeedsRefreshShort(nowT, expiresAt) == expiresAt - nowT < sessionRefreshDelta - 1

\* mutant: refresh window including its bound
NeedsRefreshInclusive(nowT, expiresAt) == expiresAt - nowT <= sessionRefreshDelta

\* expiresAt.Sub(now) < sessionRefreshDelta
NeedsRefresh(nowT, expiresAt) == expiresAt - nowT < sessionRefreshDelta

\* mutant: a refresh that inserts the row when it is gone
RefreshUpsert(table, tokenHash, newExpiry) ==
    IF SessionRows(table, tokenHash) = {}
    THEN table \cup {[token_hash |-> tokenHash, user_id |-> 1,
                      expires_at |-> formatTime(newExpiry)]}
    ELSE UpdateExpiry(table, tokenHash, formatTime(newExpiry))

\* UPDATE sessions SET expires_at = newExpiry.Format(timeFormat)
\* WHERE token_hash = ?
RefreshEffect(table, tokenHash, newExpiry) ==
    UpdateExpiry(table, tokenHash, formatTime(newExpiry))

\* mutant: the refresh hands back another token value
RefreshCookieRotated(cookie) == cookie + 1

\* the cookie value the refresh hands back
RefreshCookie(cookie) == cookie

\* mutant: the handler is given an id other than the session's
HandlerUserShifted(userID) == userID + 1

\* the user id withAuth passes to the wrapped handler
HandlerUser(userID) == userID

\* authenticateAndRefreshSession up to the session lookup
AuthLookup(p, cookie) ==
    LET r == StartReq("auth", cookie)
        rows == SessionRows(sessions, hashSessionToken(cookie))
    IN  /\ resp = NoResp
        /\ req[p].pc = "idle"
        /\ cookie \in CookieInputs
        /\ IF ~CookiePresent(cookie)
           THEN /\ resp' = Respond(r, 401, 0, FALSE, 0, 0, NoCookie, 0)
                /\ UNCHANGED req
           ELSE IF rows = {}
           THEN /\ resp' = Respond(r, 401, 0, FALSE, 1, 0, EmptyCookie, 0)
                /\ UNCHANGED req
           ELSE LET s == CHOOSE s \in rows : TRUE
                IN  /\ req' = [req EXCEPT ![p] =
                           [r EXCEPT !.pc = "auth_check", !.userID = s.user_id,
                                     !.expiresAt = parseTimestamp(s.expires_at)]]
                    /\ resp' = NoResp
        /\ UNCHANGED <<now, users, nextUserID, sessions, txOwner, txSessions,
                       nextToken, issuedTo, latest, loggedOut, registered>>
        /\ UNCHANGED dataVars

\* authenticateAndRefreshSession from time.Now() on (expiry detection and
\* the refresh), and withAuth's call of the wrapped handler
AuthCheck(p) ==
    LET r == req[p]
        tokenHash == hashSessionToken(r.cookie)
    IN  /\ resp = NoResp
        /\ r.pc = "auth_check"
        /\ IF SessionExpired(now, r.expiresAt)
           THEN /\ txOwner = 0
                /\ sessions' = DeleteByHash(sessions, tokenHash)
                /\ resp' = Respond(r, 401, 0, TRUE, 1, 1, EmptyCookie, 0)
           ELSE IF NeedsRefresh(now, r.expiresAt)
           THEN /\ txOwner = 0
                /\ sessions' = RefreshEffect(sessions, tokenHash, now + sessionTTL)
                /\ resp' = Respond(r, 200, HandlerUser(r.userID), TRUE, 1, 1,
                                   RefreshCookie(r.cookie), now + sessionTTL)
           ELSE /\ resp' = Respond(r, 200, HandlerUser(r.userID), TRUE, 1, 0,
                                   NoCookie, 0)
                /\ UNCHANGED sessions
        /\ req' = [req EXCEPT ![p] = IdleReq]
        /\ UNCHANGED <<now, users, nextUserID, txOwner, txSessions, nextToken,
                       issuedTo, latest, loggedOut, registered>>
        /\ UNCHANGED dataVars

\* --------------------------------------------------------- specification
RegisterPasswords == {"correct-horse", "short"}
LoginPasswords == {"correct-horse", "battery-staple", ""}

Next ==
    \/ Tick
    \/ Deliver
    \/ \E p \in Procs, email \in EmailInputs, password \in RegisterPasswords :
          registerHandler(p, email, password)
    \/ \E p \in Procs, email \in EmailInputs, password \in LoginPasswords :
          loginHandler(p, email, password)
    \/ \E p \in Procs : IssueDelete(p)
    \/ \E p \in Procs : IssueInsert(p)
    \/ \E p \in Procs : IssueCommit(p)
    \/ \E p \in Procs, cookie \in CookieInputs : logoutHandler(p, cookie)
    \/ \E p \in Procs, cookie \in CookieInputs : AuthLookup(p, cookie)
    \/ \E p \in Procs : AuthCheck(p)

Spec == Init /\ [][Next]_vars

\* the session lookup fails (db.QueryRow(...).Scan returns an error other
\* than sql.ErrNoRows): 500, no cookie header, the handler is not called
AuthLookupError(p, cookie) ==
    /\ resp = NoResp
    /\ req[p].pc = "idle"
    /\ cookie \in CookieInputs
    /\ CookiePresent(cookie)
    /\ resp' = [Respond(StartReq("auth", cookie), 500, 0, FALSE, 1, 0, NoCookie, 0)
                    EXCEPT !.fault = "lookup"]
    /\ UNCHANGED <<now, users, nextUserID, sessions, txOwner, txSessions,
                   nextToken, req, issuedTo, latest, loggedOut, registered>>
    /\ UNCHANGED dataVars

\* mutant: a failed refresh that keeps the handler from running
RefreshErrorShortCircuit(userID) == 0

\* what authenticateAndRefreshSession returns after a failed refresh UPDATE:
\* the session's user id, with ok = true
RefreshErrorUser(userID) == userID

\* the refresh UPDATE fails (db.Exec returns an error): the error is logged,
\* no cookie is set, and the wrapped handler is called all the same
AuthRefreshError(p) ==
    LET r == req[p]
    IN  /\ resp = NoResp
        /\ r.pc = "auth_check"
        /\ ~SessionExpired(now, r.expiresAt)
        /\ NeedsRefresh(now, r.expiresAt)
        /\ resp' = [Respond(r, 200, RefreshErrorUser(r.userID),
                            TRUE, 1, 1, NoCookie, 0)
                       EXCEPT !.fault = "refresh"]
        /\ req' = [req EXCEPT ![p] = IdleReq]
        /\ UNCHANGED <<now, users, nextUserID, sessions, txOwner, txSessions,
                       nextToken, issuedTo, latest, loggedOut, registered>>
        /\ UNCHANGED dataVars

\* mutant: a rollback that leaves the transaction's writes in the table
RollbackSessionsKept(table, view) == view

\* tx.Rollback, or a failed tx.Commit: the committed sessions table stays
RollbackSessions(table, view) == table

\* mutant: a failed issuance that takes the new users row back
UsersAfterIssueUndone(table, kind, userID) ==
    IF kind = "register" THEN {u \in table : u.id # userID} ELSE table

\* the users table after issueSession has returned an error: registerHandler
\* and loginHandler answer 500 and leave the table alone
UsersAfterIssueError(table, kind, userID) == table

\* the 500 of registerHandler or loginHandler after issueSession returned
\* an error at the statement fault
IssueErrorResponse(r, fault) ==
    [RespondError(r, 500, "Internal server error", IssueReads(r.kind),
                  IssueWrites(r.kind)
                     - (IF fault = "issue_delete" THEN 1 ELSE 0))
        EXCEPT !.fault = fault]

\* issueSession: db.Begin or the DELETE fails (tx.Rollback): nothing was
\* written
IssueDeleteError(p) ==
    LET r == req[p]
    IN  /\ resp = NoResp
        /\ r.pc = "issue_delete"
        /\ users' = UsersAfterIssueError(users, r.kind, r.userID)
        /\ resp' = IssueErrorResponse(r, "issue_delete")
        /\ req' = [req EXCEPT ![p] = IdleReq]
        /\ UNCHANGED <<now, nextUserID, sessions, txOwner, txSessions,
                       nextToken, issuedTo, latest, loggedOut, registered>>
        /\ UNCHANGED dataVars

\* issueSession: the INSERT fails after the DELETE: tx.Rollback
IssueInsertError(p) ==
    LET r == req[p]
    IN  /\ resp = NoResp
        /\ r.pc = "issue_insert"
        /\ txOwner = p
        /\ sessions' = RollbackSessions(sessions, txSessions)
        /\ txOwner' = 0
        /\ txSessions' = {}
        /\ users' = UsersAfterIssueError(users, r.kind, r.userID)
        /\ resp' = IssueErrorResponse(r, "issue_insert")
        /\ req' = [req EXCEPT ![p] = IdleReq]
        /\ UNCHANGED <<now, nextUserID, nextToken, issuedTo, latest,
                       loggedOut, registered>>
        /\ UNCHANGED dataVars

\* issueSession: tx.Commit fails; the store has rolled the transaction back
IssueCommitError(p) ==
    LET r == req[p]
    IN  /\ resp = NoResp
        /\ r.pc = "issue_commit"
        /\ txOwner = p
        /\ sessions' = RollbackSessions(sessions, txSessions)
        /\ txOwner' = 0
        /\ txSessions' = {}
        /\ users' = UsersAfterIssueError(users, r.kind, r.userID)
        /\ resp' = IssueErrorResponse(r, "issue_commit")
        /\ req' = [req EXCEPT ![p] = IdleReq]
        /\ UNCHANGED <<now, nextUserID, nextToken, issuedTo, latest,
                       loggedOut, registered>>
        /\ UNCHANGED dataVars

FaultNext ==
    \/ Next
    \/ \E p \in Procs, cookie \in CookieInputs : AuthLookupError(p, cookie)
    \/ \E p \in Procs : AuthRefreshError(p)
    \/ \E p \in Procs : IssueDeleteError(p)
    \/ \E p \in Procs : IssueInsertError(p)
    \/ \E p \in Procs : IssueCommitError(p)

SpecFault == Init /\ [][FaultNext]_vars

\* One user has registered and has logged out again: the users row is
\* there and no session; the session tokens drawn from here on are counted
\* from 1.
InitLogin ==
    /\ now = 0
    /\ users = {[id |-> 1, email |-> "a@x.io",
                 password_hash |-> bcryptHash("correct-horse")]}
    /\ nextUserID = 2
    /\ sessions = {}
    /\ txOwner = 0
    /\ txSessions = {}
    /\ nextToken = 1
    /\ req = [p \in Procs |-> IdleReq]
    /\ resp = NoResp
    /\ issuedTo = [t \in RawTokens |-> 0]
    /\ latest = [u \in UserIDs |-> 0]
    /\ loggedOut = {}
    /\ registered = [e \in NormalEmails |-> IF e = "a@x.io" THEN 1 ELSE 0]
    /\ DataInit

SpecLogin == InitLogin /\ [][Next]_vars

\* ====================================================== resource handlers
\* The handlers behind withAuth.  Each is called with the user id of a
\* session row (AuthCheck), so here userID ranges over the users that hold
\* a session.  Amounts and balances are whole numbers; dates are calendar
\* days <<year, month, day>> (the stored text holds whole seconds, and no
\* handler changes the time of day).

\* ------------------------------------------------------------- the calendar
IsLeap(y) == (y % 4 = 0 /\ y % 100 # 0) \/ y % 400 = 0

DaysIn(y, m) ==
    CASE m \in {4, 6, 9, 11} -> 30
      [] m = 2 -> IF IsLeap(y) THEN 29 ELSE 28
      [] OTHER -> 31

\* time.Date's normalisation of a month beyond December and of a day beyond
\* the end of its month
RECURSIVE NormDate(_, _, _)
NormDate(y, m, d) ==
    IF m > 12 THEN NormDate(y + 1, m - 12, d)
    ELSE IF d > DaysIn(y, m) THEN NormDate(y, m + 1, d - DaysIn(y, m))
    ELSE <<y, m, d>>

\* t.AddDate(years, months, days)
AddDate(t, years, months, days) ==
    NormDate(t[1] + years, t[2] + months, t[3] + days)

\* a <= b on the stored texts "2006-01-02 15:04:05"
DateLE(a, b) ==
    \/ a[1] < b[1]
    \/ a[1] = b[1] /\ a[2] < b[2]
    \/ a[1] = b[1] /\ a[2] = b[2] /\ a[3] <= b[3]

\* strftime('%Y-%m', date)
MonthOf(date) == <<date[1], date[2]>>

\* ------------------------------------------------------------ request data
\* a body decodeJSONBody rejects
BadBody == [bad |-> TRUE]

IDs == 1..MaxRecords

\* the ids a request path can name: those of rows created so far and one
\* beyond
PathIDs(t) == 1..nextID[t]

\* the bodies of POST /expenses; account_id 0 is a body without account_id
\* (account 1 may be the caller's, another user's or nobody's)
ExpenseBodies ==
    {[amount |-> 5, category |-> "food", note |-> "lunch",
      date |-> <<2024, 1, 31>>, account_id |-> 1],
     [amount |-> 7, category |-> "food", note |-> "lunch",
      date |-> <<2024, 2, 1>>, account_id |-> 1],
     [amount |-> 5, category |-> "food", note |-> "lunch",
      date |-> <<2024, 1, 31>>, account_id |-> 0]}

\* the bodies of PUT /expenses/{id}
ExpenseUpdates ==
    {[amount |-> 6, category |-> "rent", note |-> "flat",
      date |-> <<2024, 2, 1>>, account_id |-> 0]}

\* the bodies of POST and of PUT for incomes, budgets and accounts
IncomeBodies == {[amount |-> 3, account_id |-> 1], [amount |-> 3, account_id |-> 0]}
IncomeUpdates == {[amount |-> 4, account_id |-> 0]}
BudgetBodies == {[amount |-> 100]}
BudgetUpdates == {[amount |-> 200]}
AccountBodies == {[balance |-> 10]}
AccountUpdates == {[balance |-> 20]}

\* the tables as one record
Snapshot ==
    [accounts |-> accounts, expenses |-> expenses, incomes |-> incomes,
     budgets |-> budgets, recurring_expenses |-> recurring]

\* The response of a resource handler: op and table name the handler, user
\* is the userID it was called with, id the path id (or the id a create
\* assigned), body the decoded request body, result the JSON it encoded,
\* before the tables before the step.
Out(op, table, userID, id, body, status, result) ==
    [op |-> op, table |-> table, user |-> userID, id |-> id, body |-> body,
     status |-> status, result |-> result, before |-> Snapshot]

\* the users withAuth can call a handler for
AuthedUsers == {s.user_id : s \in sessions}

\* mutant: rows matched by id alone
OwnedRowsAnyUser(table, userID, id) == {x \in table : x.id = id}

\* SELECT/UPDATE/DELETE ... WHERE id = ? AND user_id = ?
OwnedRows(table, userID, id) ==
    {x \in table : x.id = id /\ x.user_id = userID}

\* mutant: list query without its WHERE user_id = ?
UserRowsAll(table, userID) == table

\* SELECT ... WHERE user_id = ?
UserRows(table, userID) == {x \in table : x.user_id = userID}

\* mutant: ids assigned as by a rowid without AUTOINCREMENT, one above the
\* largest id in the table
LastInsertIdMaxRowid(table, counter) ==
    IF table = {} THEN 1
    ELSE (CHOOSE i \in {x.id : x \in table} : \A x \in table : x.id <= i) + 1

\* res.LastInsertId() of an INSERT into a table whose id column is INTEGER
\* PRIMARY KEY AUTOINCREMENT and whose sqlite_sequence entry is counter - 1
LastInsertId(table, counter) == counter

\* no transaction holds the store's write lock
WriteFree == tx = NoTx /\ mat.pc \notin MatTxSteps

\* a create stays within the rows the model lets the tables reach
Room == nextID["expenses"] + nextID["budgets"] + nextID["recurring_expenses"]
            + nextID["incomes"] + nextID["accounts"] - 5 < MaxRecords

\* the response of the last step reaches its client
Reply ==
    /\ out # NoOut
    /\ out' = NoOut
    /\ UNCHANGED <<accounts, expenses, incomes, budgets, recurring, nextID, tx,
                   deleted, today, mat, hist>>
    /\ UNCHANGED authVars

\* --------------------------------------------------------------- expenses
\* GET /expenses without query parameters (the default LIMIT 10 is above
\* the rows the model lets the table reach)
getExpenses(userID) ==
    /\ out = NoOut
    /\ userID \in AuthedUsers
    /\ out' = Out("list", "expenses", userID, 0, BadBody, 200,
                  UserRows(expenses, userID))
    /\ UNCHANGED <<accounts, expenses, incomes, budgets, recurring, nextID, tx,
                   deleted, today, mat, hist>>
    /\ UNCHANGED authVars

\* the row INSERT INTO expenses adds
ExpenseRow(id, userID, body) ==
    [id |-> id, user_id |-> userID, amount |-> body.amount,
     category |-> body.category, note |-> body.note, date |-> body.date,
     account_id |-> body.account_id]

\* UPDATE accounts SET balance = balance - ? WHERE id = ? AND user_id = ?
DebitAccount(table, accountID, userID, amount) ==
    {IF a.id = accountID /\ a.user_id = userID
     THEN [a EXCEPT !.balance = @ - amount] ELSE a : a \in table}

\* POST /expenses up to the INSERT inside the transaction. fk tells whether
\* the pooled connection serving the transaction enforces foreign keys
\* (PRAGMA foreign_keys = ON reaches one connection of the pool only).
createExpense(userID, body, fk) ==
    /\ out = NoOut
    /\ userID \in AuthedUsers
    /\ IF body = BadBody
       THEN /\ out' = Out("create", "expenses", userID, 0, body, 400, "Invalid JSON")
            /\ UNCHANGED tx
       ELSE IF body.account_id = 0
       THEN /\ out' = Out("create", "expenses", userID, 0, body, 400,
                          "Account is required")
            /\ UNCHANGED tx
       ELSE /\ WriteFree
            /\ Room
            /\ IF fk /\ ~\E a \in accounts : a.id = body.account_id
               THEN /\ out' = Out("create", "expenses", userID, 0, body, 500,
                                  "Internal server error")
                    /\ UNCHANGED tx
               ELSE /\ tx' = [pc |-> "inserted", table |-> "expenses",
                              user |-> userID, body |-> body,
                              id |-> LastInsertId(expenses, nextID["expenses"]),
                              accounts |-> accounts]
                    /\ out' = NoOut
    /\ UNCHANGED <<accounts, expenses, incomes, budgets, recurring, nextID,
                   deleted, today, mat, hist>>
    /\ UNCHANGED authVars

\* POST /expenses: the UPDATE of the account balance inside the transaction
createExpenseUpdate ==
    /\ out = NoOut
    /\ tx # NoTx
    /\ tx.pc = "inserted"
    /\ tx.table = "expenses"
    /\ tx' = [tx EXCEPT !.pc = "updated",
                        !.accounts = DebitAccount(tx.accounts, tx.body.account_id,
                                                  tx.user, tx.body.amount)]
    /\ UNCHANGED <<accounts, expenses, incomes, budgets, recurring, nextID, out,
                   deleted, today, mat, hist>>
    /\ UNCHANGED authVars

\* POST /expenses: tx.Commit and the 201 response
createExpenseCommit ==
    /\ out = NoOut
    /\ tx # NoTx
    /\ tx.pc = "updated"
    /\ tx.table = "expenses"
    /\ expenses' = expenses \cup {ExpenseRow(tx.id, tx.user, tx.body)}
    /\ accounts' = tx.accounts
    /\ nextID' = [nextID EXCEPT !["expenses"] = @ + 1]
    /\ tx' = NoTx
    /\ out' = Out("create", "expenses", tx.user, tx.id, tx.body, 201,
                  ExpenseRow(tx.id, tx.user, tx.body))
    /\ UNCHANGED <<incomes, budgets, recurring, deleted, today, mat, hist>>
    /\ UNCHANGED authVars

\* GET /expenses/{id}
getExpense(userID, id) ==
    LET rows == OwnedRows(expenses, userID, id)
    IN  /\ out = NoOut
        /\ userID \in AuthedUsers
        /\ id \in PathIDs("expenses")
        /\ out' = IF rows = {}
                  THEN Out("get", "expenses", userID, id, BadBody, 404,
                           "Expense not found")
                  ELSE Out("get", "expenses", userID, id, BadBody, 200,
                           CHOOSE x \in rows : TRUE)
        /\ UNCHANGED <<accounts, expenses, incomes, budgets, recurring, nextID,
                       tx, deleted, today, mat, hist>>
        /\ UNCHANGED authVars

\* PUT /expenses/{id}
updateExpense(userID, id, body) ==
    LET rows == OwnedRows(expenses, userID, id)
    IN  /\ out = NoOut
        /\ userID \in AuthedUsers
        /\ id \in PathIDs("expenses")
        /\ IF body = BadBody
           THEN /\ out' = Out("put", "expenses", userID, id, body, 400,
                              "Invalid JSON")
                /\ UNCHANGED expenses
           ELSE /\ WriteFree
                /\ expenses' =
                       {IF x \in rows
                        THEN [x EXCEPT !.amount = body.amount,
                                       !.category = body.category,
                                       !.note = body.note, !.date = body.date]
                        ELSE x : x \in expenses}
                /\ out' = IF rows = {}
                          THEN Out("put", "expenses", userID, id, body, 404,
                                   "Expense not found")
                          ELSE Out("put", "expenses", userID, id, body, 200, body)
        /\ UNCHANGED <<accounts, incomes, budgets, recurring, nextID, tx,
                       deleted, today, mat, hist>>
        /\ UNCHANGED authVars

\* DELETE /expenses/{id}
deleteExpense(userID, id) ==
    LET rows == OwnedRows(expenses, userID, id)
    IN  /\ out = NoOut
        /\ userID \in AuthedUsers
        /\ id \in PathIDs("expenses")
        /\ WriteFree
        /\ expenses' = expenses \ rows
        /\ out' = IF rows = {}
                  THEN Out("delete", "expenses", userID, id, BadBody, 404,
                           "Expense not found")
                  ELSE Out("delete", "expenses", userID, id, BadBody, 204, "")
        /\ deleted' = IF rows = {} THEN deleted
                      ELSE deleted \cup {<<"expenses", id>>}
        /\ UNCHANGED <<accounts, incomes, budgets, recurring, nextID, tx,
                       today, mat, hist>>
        /\ UNCHANGED authVars

\* SUM(amount) over a group of rows
RECURSIVE SumAmounts(_)
SumAmounts(rows) ==
    IF rows = {} THEN 0
    ELSE LET x == CHOOSE x \in rows : TRUE
         IN  x.amount + SumAmounts(rows \ {x})

\* SELECT strftime('%Y-%m', date), SUM(amount) FROM expenses
\* WHERE user_id = ? GROUP BY month, as the map the handler encodes
getTotalsByMonth(userID) ==
    LET rows == UserRows(expenses, userID)
    IN  [g \in {MonthOf(x.date) : x \in rows} |->
            SumAmounts({x \in rows : MonthOf(x.date) = g})]

\* SELECT category, SUM(amount) FROM expenses WHERE user_id = ?
\* GROUP BY category, as the map the handler encodes
getTotalsByCategory(userID) ==
    LET rows == UserRows(expenses, userID)
    IN  [g \in {x.category : x \in rows} |->
            SumAmounts({x \in rows : x.category = g})]

AggregateQueries == {"totals_by_month", "totals_by_category", "totals"}

\* GET /expenses/aggregates?query=...
aggregatesHandler(userID, query) ==
    /\ out = NoOut
    /\ userID \in AuthedUsers
    /\ out' = CASE query = "totals_by_month" ->
                     Out(query, "expenses", userID, 0, BadBody, 200,
                         getTotalsByMonth(userID))
                [] query = "totals_by_category" ->
                     Out(query, "expenses", userID, 0, BadBody, 200,
                         getTotalsByCategory(userID))
                [] OTHER ->
                     Out(query, "expenses", userID, 0, BadBody, 400,
                         "Invalid aggregate query")
    /\ UNCHANGED <<accounts, expenses, incomes, budgets, recurring, nextID, tx,
                   deleted, today, mat, hist>>
    /\ UNCHANGED authVars

\* ---------------------------------------------------------------- budgets
\* GET /budgets
getBudgets(userID) ==
    /\ out = NoOut
    /\ userID \in AuthedUsers
    /\ out' = Out("list", "budgets", userID, 0, BadBody, 200,
                  UserRows(budgets, userID))
    /\ UNCHANGED <<accounts, expenses, incomes, budgets, recurring, nextID, tx,
                   deleted, today, mat, hist>>
    /\ UNCHANGED authVars

\* POST /budgets
createBudget(userID, body) ==
    LET row == [id |-> LastInsertId(budgets, nextID["budgets"]), user_id |-> userID,
                amount |-> body.amount]
    IN  /\ out = NoOut
        /\ userID \in AuthedUsers
        /\ IF body = BadBody
           THEN /\ out' = Out("create", "budgets", userID, 0, body, 400,
                              "Invalid JSON")
                /\ UNCHANGED <<budgets, nextID>>
           ELSE /\ WriteFree
                /\ Room
                /\ budgets' = budgets \cup {row}
                /\ nextID' = [nextID EXCEPT !["budgets"] = @ + 1]
                /\ out' = Out("create", "budgets", userID, row.id, body, 201, row)
        /\ UNCHANGED <<accounts, expenses, incomes, recurring, tx, deleted,
                       today, mat, hist>>
        /\ UNCHANGED authVars

\* GET /budgets/{id}
getBudget(userID, id) ==
    LET rows == OwnedRows(budgets, userID, id)
    IN  /\ out = NoOut
        /\ userID \in AuthedUsers
        /\ id \in PathIDs("budgets")
        /\ out' = IF rows = {}
                  THEN Out("get", "budgets", userID, id, BadBody, 404,
                           "Budget not found")
                  ELSE Out("get", "budgets", userID, id, BadBody, 200,
                           CHOOSE x \in rows : TRUE)
        /\ UNCHANGED <<accounts, expenses, incomes, budgets, recurring, nextID,
                       tx, deleted, today, mat, hist>>
        /\ UNCHANGED authVars

\* PUT /budgets/{id}
updateBudget(userID, id, body) ==
    LET rows == OwnedRows(budgets, userID, id)
    IN  /\ out = NoOut
        /\ userID \in AuthedUsers
        /\ id \in PathIDs("budgets")
        /\ IF body = BadBody
           THEN /\ out' = Out("put", "budgets", userID, id, body, 400,
                              "Invalid JSON")
                /\ UNCHANGED budgets
           ELSE /\ WriteFree
                /\ budgets' = {IF x \in rows
                               THEN [x EXCEPT !.amount = body.amount]
                               ELSE x : x \in budgets}
                /\ out' = IF rows = {}
                          THEN Out("put", "budgets", userID, id, body, 404,
                                   "Budget not found")
                          ELSE Out("put", "budgets", userID, id, body, 200, body)
        /\ UNCHANGED <<accounts, expenses, incomes, recurring, nextID, tx,
                       deleted, today, mat, hist>>
        /\ UNCHANGED authVars

\* DELETE /budgets/{id}
deleteBudget(userID, id) ==
    LET rows == OwnedRows(budgets, userID, id)
    IN  /\ out = NoOut
        /\ userID \in AuthedUsers
        /\ id \in PathIDs("budgets")
        /\ WriteFree
        /\ budgets' = budgets \ rows
        /\ out' = IF rows = {}
                  THEN Out("delete", "budgets", userID, id, BadBody, 404,
                           "Budget not found")
                  ELSE Out("delete", "budgets", userID, id, BadBody, 204, "")
        /\ deleted' = IF rows = {} THEN deleted
                      ELSE deleted \cup {<<"budgets", id>>}
        /\ UNCHANGED <<accounts, expenses, incomes, recurring, nextID, tx,
                       today, mat, hist>>
        /\ UNCHANGED authVars

\* ----------------------------------------------------- recurring expenses
\* strings.ToLower(strings.TrimSpace(freq)) on the frequencies the model
\* draws
NormalFrequency(freq) ==
    CASE freq = " Daily " -> "daily"
      [] OTHER -> freq

isValidFrequency(freq) ==
    NormalFrequency(freq) \in {"daily", "weekly", "monthly", "yearly"}

\* the bodies of POST /recurring-expenses
RecurringBodies ==
    {[amount |-> 9, category |-> "rent", note |-> "flat",
      frequency |-> "monthly", next_due_date |-> <<2024, 1, 31>>],
     [amount |-> 2, category |-> "food", note |-> "milk",
      frequency |-> " Daily ", next_due_date |-> <<2024, 1, 29>>],
     [amount |-> 2, category |-> "food", note |-> "milk",
      frequency |-> "hourly", next_due_date |-> <<2024, 1, 29>>]}

\* the bodies of PUT /recurring-expenses/{id}
RecurringUpdates ==
    {[amount |-> 4, category |-> "rent", note |-> "flat",
      frequency |-> "weekly", next_due_date |-> <<2024, 1, 30>>],
     [amount |-> 4, category |-> "rent", note |-> "flat",
      frequency |-> "hourly", next_due_date |-> <<2024, 1, 30>>]}

\* the row INSERT INTO recurring_expenses adds and UPDATE leaves
RecurringRow(id, userID, body) ==
    [id |-> id, user_id |-> userID, amount |-> body.amount,
     category |-> body.category, note |-> body.note,
     frequency |-> NormalFrequency(body.frequency),
     next_due_date |-> body.next_due_date]

\* GET /recurring-expenses
getRecurringExpenses(userID) ==
    /\ out = NoOut
    /\ userID \in AuthedUsers
    /\ out' = Out("list", "recurring_expenses", userID, 0, BadBody, 200,
                  UserRows(recurring, userID))
    /\ UNCHANGED <<accounts, expenses, incomes, budgets, recurring, nextID, tx,
                   deleted, today, mat, hist>>
    /\ UNCHANGED authVars

\* POST /recurring-expenses
createRecurringExpense(userID, body) ==
    LET id == LastInsertId(recurring, nextID["recurring_expenses"])
    IN  /\ out = NoOut
        /\ userID \in AuthedUsers
        /\ IF body = BadBody
           THEN /\ out' = Out("create", "recurring_expenses", userID, 0, body,
                              400, "Invalid JSON")
                /\ UNCHANGED <<recurring, nextID>>
           ELSE IF ~isValidFrequency(body.frequency)
           THEN /\ out' = Out("create", "recurring_expenses", userID, 0, body,
                              400, "Invalid frequency")
                /\ UNCHANGED <<recurring, nextID>>
           ELSE /\ WriteFree
                /\ Room
                /\ recurring' = recurring \cup {RecurringRow(id, userID, body)}
                /\ nextID' = [nextID EXCEPT !["recurring_expenses"] = @ + 1]
                /\ out' = Out("create", "recurring_expenses", userID, id, body,
                              201, RecurringRow(id, userID, body))
        /\ UNCHANGED <<accounts, expenses, incomes, budgets, tx, deleted,
                       today, mat, hist>>
        /\ UNCHANGED authVars

\* GET /recurring-expenses/{id}
getRecurringExpense(userID, id) ==
    LET rows == OwnedRows(recurring, userID, id)
    IN  /\ out = NoOut
        /\ userID \in AuthedUsers
        /\ id \in PathIDs("recurring_expenses")
        /\ out' = IF rows = {}
                  THEN Out("get", "recurring_expenses", userID, id, BadBody, 404,
                           "Recurring expense not found")
                  ELSE Out("get", "recurring_expenses", userID, id, BadBody, 200,
                           CHOOSE x \in rows : TRUE)
        /\ UNCHANGED <<accounts, expenses, incomes, budgets, recurring, nextID,
                       tx, deleted, today, mat, hist>>
        /\ UNCHANGED authVars

\* PUT /recurring-expenses/{id}
updateRecurringExpense(userID, id, body) ==
    LET rows == OwnedRows(recurring, userID, id)
    IN  /\ out = NoOut
        /\ userID \in AuthedUsers
        /\ id \in PathIDs("recurring_expenses")
        /\ IF body = BadBody
           THEN /\ out' = Out("put", "recurring_expenses", userID, id, body, 400,
                              "Invalid JSON")
                /\ UNCHANGED recurring
           ELSE IF ~isValidFrequency(body.frequency)
           THEN /\ out' = Out("put", "recurring_expenses", userID, id, body, 400,
                              "Invalid frequency")
                /\ UNCHANGED recurring
           ELSE /\ WriteFree
                /\ recurring' = {IF x \in rows
                                 THEN RecurringRow(x.id, x.user_id, body)
                                 ELSE x : x \in recurring}
                /\ out' = IF rows = {}
                          THEN Out("put", "recurring_expenses", userID, id, body,
                                   404, "Recurring expense not found")
                          ELSE Out("put", "recurring_expenses", userID, id, body,
                                   200, RecurringRow(id, userID, body))
        /\ hist' = IF body = BadBody \/ ~isValidFrequency(body.frequency)
                   THEN hist
                   ELSE [hist EXCEPT !.touched = @ \cup
                            {x.id : x \in {y \in rows :
                                 y.next_due_date # body.next_due_date}}]
        /\ UNCHANGED <<accounts, expenses, incomes, budgets, nextID, tx,
                       deleted, today, mat>>
        /\ UNCHANGED authVars

\* DELETE /recurring-expenses/{id}
deleteRecurringExpense(userID, id) ==
    LET rows == OwnedRows(recurring, userID, id)
    IN  /\ out = NoOut
        /\ userID \in AuthedUsers
        /\ id \in PathIDs("recurring_expenses")
        /\ WriteFree
        /\ recurring' = recurring \ rows
        /\ out' = IF rows = {}
                  THEN Out("delete", "recurring_expenses", userID, id, BadBody,
                           404, "Recurring expense not found")
                  ELSE Out("delete", "recurring_expenses", userID, id, BadBody,
                           204, "")
        /\ deleted' = IF rows = {} THEN deleted
                      ELSE deleted \cup {<<"recurring_expenses", id>>}
        /\ UNCHANGED <<accounts, expenses, incomes, budgets, nextID, tx,
                       today, mat, hist>>
        /\ UNCHANGED authVars

\* ---------------------------------------------------------------- incomes
\* GET /incomes
getIncomes(userID) ==
    /\ out = NoOut
    /\ userID \in AuthedUsers
    /\ out' = Out("list", "incomes", userID, 0, BadBody, 200,
                  UserRows(incomes, userID))
    /\ UNCHANGED <<accounts, expenses, incomes, budgets, recurring, nextID, tx,
                   deleted, today, mat, hist>>
    /\ UNCHANGED authVars

\* the row INSERT INTO incomes adds
IncomeRow(id, userID, body) ==
    [id |-> id, user_id |-> userID, amount |-> body.amount,
     account_id |-> body.account_id]

\* UPDATE accounts SET balance = balance + ? WHERE id = ? AND user_id = ?
CreditAccount(table, accountID, userID, amount) ==
    {IF a.id = accountID /\ a.user_id = userID
     THEN [a EXCEPT !.balance = @ + amount] ELSE a : a \in table}

\* POST /incomes up to the INSERT inside the transaction
createIncome(userID, body, fk) ==
    /\ out = NoOut
    /\ userID \in AuthedUsers
    /\ IF body = BadBody
       THEN /\ out' = Out("create", "incomes", userID, 0, body, 400, "Invalid JSON")
            /\ UNCHANGED tx
       ELSE IF body.account_id = 0
       THEN /\ out' = Out("create", "incomes", userID, 0, body, 400,
                          "Account is required")
            /\ UNCHANGED tx
       ELSE /\ WriteFree
            /\ Room
            /\ IF fk /\ ~\E a \in accounts : a.id = body.account_id
               THEN /\ out' = Out("create", "incomes", userID, 0, body, 500,
                                  "Internal server error")
                    /\ UNCHANGED tx
               ELSE /\ tx' = [pc |-> "inserted", table |-> "incomes",
                              user |-> userID, body |-> body,
                              id |-> LastInsertId(incomes, nextID["incomes"]),
                              accounts |-> accounts]
                    /\ out' = NoOut
    /\ UNCHANGED <<accounts, expenses, incomes, budgets, recurring, nextID,
                   deleted, today, mat, hist>>
    /\ UNCHANGED authVars

\* POST /incomes: the UPDATE of the account balance inside the transaction
createIncomeUpdate ==
    /\ out = NoOut
    /\ tx # NoTx
    /\ tx.pc = "inserted"
    /\ tx.table = "incomes"
    /\ tx' = [tx EXCEPT !.pc = "updated",
                        !.accounts = CreditAccount(tx.accounts, tx.body.account_id,
                                                   tx.user, tx.body.amount)]
    /\ UNCHANGED <<accounts, expenses, incomes, budgets, recurring, nextID, out,
                   deleted, today, mat, hist>>
    /\ UNCHANGED authVars

\* POST /incomes: tx.Commit and the 201 response
createIncomeCommit ==
    /\ out = NoOut
    /\ tx # NoTx
    /\ tx.pc = "updated"
    /\ tx.table = "incomes"
    /\ incomes' = incomes \cup {IncomeRow(tx.id, tx.user, tx.body)}
    /\ accounts' = tx.accounts
    /\ nextID' = [nextID EXCEPT !["incomes"] = @ + 1]
    /\ tx' = NoTx
    /\ out' = Out("create", "incomes", tx.user, tx.id, tx.body, 201,
                  IncomeRow(tx.id, tx.user, tx.body))
    /\ UNCHANGED <<expenses, budgets, recurring, deleted, today, mat, hist>>
    /\ UNCHANGED authVars

\* GET /incomes/{id}
getIncome(userID, id) ==
    LET rows == OwnedRows(incomes, userID, id)
    IN  /\ out = NoOut
        /\ userID \in AuthedUsers
        /\ id \in PathIDs("incomes")
        /\ out' = IF rows = {}
                  THEN Out("get", "incomes", userID, id, BadBody, 404,
                           "Income not found")
                  ELSE Out("get", "incomes", userID, id, BadBody, 200,
                           CHOOSE x \in rows : TRUE)
        /\ UNCHANGED <<accounts, expenses, incomes, budgets, recurring, nextID,
                       tx, deleted, today, mat, hist>>
        /\ UNCHANGED authVars

\* PUT /incomes/{id}
updateIncome(userID, id, body) ==
    LET rows == OwnedRows(incomes, userID, id)
    IN  /\ out = NoOut
        /\ userID \in AuthedUsers
        /\ id \in PathIDs("incomes")
        /\ IF body = BadBody
           THEN /\ out' = Out("put", "incomes", userID, id, body, 400,
                              "Invalid JSON")
                /\ UNCHANGED incomes
           ELSE /\ WriteFree
                /\ incomes' = {IF x \in rows
                               THEN [x EXCEPT !.amount = body.amount]
                               ELSE x : x \in incomes}
                /\ out' = IF rows = {}
                          THEN Out("put", "incomes", userID, id, body, 404,
                                   "Income not found")
                          ELSE Out("put", "incomes", userID, id, body, 200, body)
        /\ UNCHANGED <<accounts, expenses, budgets, recurring, nextID, tx,
                       deleted, today, mat, hist>>
        /\ UNCHANGED authVars

\* DELETE /incomes/{id}
deleteIncome(userID, id) ==
    LET rows == OwnedRows(incomes, userID, id)
    IN  /\ out = NoOut
        /\ userID \in AuthedUsers
        /\ id \in PathIDs("incomes")
        /\ WriteFree
        /\ incomes' = incomes \ rows
        /\ out' = IF rows = {}
                  THEN Out("delete", "incomes", userID, id, BadBody, 404,
                           "Income not found")
                  ELSE Out("delete", "incomes", userID, id, BadBody, 204, "")
        /\ deleted' = IF rows = {} THEN deleted
                      ELSE deleted \cup {<<"incomes", id>>}
        /\ UNCHANGED <<accounts, expenses, budgets, recurring, nextID, tx,
                       today, mat, hist>>
        /\ UNCHANGED authVars

\* --------------------------------------------------------------- accounts
\* GET /accounts
getAccounts(userID) ==
    /\ out = NoOut
    /\ userID \in AuthedUsers
    /\ out' = Out("list", "accounts", userID, 0, BadBody, 200,
                  UserRows(accounts, userID))
    /\ UNCHANGED <<accounts, expenses, incomes, budgets, recurring, nextID, tx,
                   deleted, today, mat, hist>>
    /\ UNCHANGED authVars

\* POST /accounts
createAccount(userID, body) ==
    LET row == [id |-> LastInsertId(accounts, nextID["accounts"]), user_id |-> userID,
                balance |-> body.balance]
    IN  /\ out = NoOut
        /\ userID \in AuthedUsers
        /\ IF body = BadBody
           THEN /\ out' = Out("create", "accounts", userID, 0, body, 400,
                              "Invalid JSON")
                /\ UNCHANGED <<accounts, nextID>>
           ELSE /\ WriteFree
                /\ Room
                /\ accounts' = accounts \cup {row}
                /\ nextID' = [nextID EXCEPT !["accounts"] = @ + 1]
                /\ out' = Out("create", "accounts", userID, row.id, body, 201, row)
        /\ UNCHANGED <<expenses, incomes, budgets, recurring, tx, deleted,
                       today, mat, hist>>
        /\ UNCHANGED authVars

\* GET /accounts/{id}: accountHandler has no case for GET
getAccount(userID, id) ==
    /\ out = NoOut
    /\ userID \in AuthedUsers
    /\ id \in PathIDs("accounts")
    /\ out' = Out("get", "accounts", userID, id, BadBody, 405,
                  "Method not allowed")
    /\ UNCHANGED <<accounts, expenses, incomes, budgets, recurring, nextID, tx,
                   deleted, today, mat, hist>>
    /\ UNCHANGED authVars

\* PUT /accounts/{id}
updateAccount(userID, id, body) ==
    LET rows == OwnedRows(accounts, userID, id)
    IN  /\ out = NoOut
        /\ userID \in AuthedUsers
        /\ id \in PathIDs("accounts")
        /\ IF body = BadBody
           THEN /\ out' = Out("put", "accounts", userID, id, body, 400,
                              "Invalid JSON")
                /\ UNCHANGED accounts
           ELSE /\ WriteFree
                /\ accounts' = {IF x \in rows
                                THEN [x EXCEPT !.balance = body.balance]
                                ELSE x : x \in accounts}
                /\ out' = IF rows = {}
                          THEN Out("put", "accounts", userID, id, body, 404,
                                   "Account not found")
                          ELSE Out("put", "accounts", userID, id, body, 200, body)
        /\ UNCHANGED <<expenses, incomes, budgets, recurring, nextID, tx,
                       deleted, today, mat, hist>>
        /\ UNCHANGED authVars

\* ON DELETE SET NULL of the account_id columns (NULL is 0 here)
SetNullAccount(table, accountIDs) ==
    {IF x.account_id \in accountIDs THEN [x EXCEPT !.account_id = 0] ELSE x
        : x \in table}

\* DELETE /accounts/{id}; fk as in createExpense
deleteAccount(userID, id, fk) ==
    LET rows == OwnedRows(accounts, userID, id)
        gone == IF fk THEN {x.id : x \in rows} ELSE {}
    IN  /\ out = NoOut
        /\ userID \in AuthedUsers
        /\ id \in PathIDs("accounts")
        /\ WriteFree
        /\ accounts' = accounts \ rows
        /\ expenses' = SetNullAccount(expenses, gone)
        /\ incomes' = SetNullAccount(incomes, gone)
        /\ out' = IF rows = {}
                  THEN Out("delete", "accounts", userID, id, BadBody, 404,
                           "Account not found")
                  ELSE Out("delete", "accounts", userID, id, BadBody, 204, "")
        /\ deleted' = IF rows = {} THEN deleted
                      ELSE deleted \cup {<<"accounts", id>>}
        /\ UNCHANGED <<budgets, recurring, nextID, tx, today, mat, hist>>
        /\ UNCHANGED authVars

\* ------------------------------------------------------------ materializer
\* the day the server was started
StartDay == <<2024, 1, 30>>

\* time.Now().UTC() of the materializer, as a calendar day
TodayDate == AddDate(StartDay, 0, 0, today)

\* 24 hours pass
DayTick ==
    /\ out = NoOut
    /\ today < MaxDays
    /\ today' = today + 1
    /\ UNCHANGED <<accounts, expenses, incomes, budgets, recurring, nextID, tx,
                   out, deleted, mat, hist>>
    /\ UNCHANGED authVars

\* the switch on strings.ToLower(re.Frequency): the date one period after
\* date (the stored frequencies are lower case)
NextDue(frequency, date) ==
    CASE frequency = "daily" -> AddDate(date, 0, 0, 1)
      [] frequency = "weekly" -> AddDate(date, 0, 0, 7)
      [] frequency = "monthly" -> AddDate(date, 0, 1, 0)
      [] frequency = "yearly" -> AddDate(date, 1, 0, 0)
      [] OTHER -> AddDate(date, 0, 0, 1)

\* mutant: the generated expense dated at the advanced due date
MaterializedExpenseAdvanced(id, re) ==
    [id |-> id, user_id |-> re.user_id, amount |-> re.amount,
     category |-> re.category, note |-> re.note,
     date |-> NextDue(re.frequency, re.next_due_date), account_id |-> 0]

\* the row the materializer inserts for the definition re it read:
\* INSERT INTO expenses(amount, category, note, date, user_id), account_id
\* NULL
MaterializedExpense(id, re) ==
    [id |-> id, user_id |-> re.user_id, amount |-> re.amount,
     category |-> re.category, note |-> re.note, date |-> re.next_due_date,
     account_id |-> 0]

\* mutant: the definition is left at its due date
AdvanceDefinitionSkipped(table, re) == table

\* UPDATE recurring_expenses SET next_due_date = ? WHERE id = ?
AdvanceDefinition(table, re) ==
    {IF x.id = re.id
     THEN [x EXCEPT !.next_due_date = NextDue(re.frequency, re.next_due_date)]
     ELSE x : x \in table}

\* mutant: the cursor delivers a row again
CursorRestAgain(rows, re) == rows

\* the rows the cursor has yet to deliver after rows.Next() delivered re
CursorRest(rows, re) == rows \ {re}

\* mutant: a rollback that keeps what the transaction wrote
RolledBackKept(table, view) == view

\* tx.Rollback (and a failed tx.Commit): the committed table stays, the
\* transaction's view of it is dropped
RolledBack(table, view) == table

\* the materializer stays within the expenses the model lets it generate
MatRoom == nextID["expenses"] <= MaxGenerated

\* the ticker fires: processRecurringExpenses reads the clock and runs its
\* query; rows is the result set the cursor will deliver
processRecurringExpenses ==
    LET due == {x \in recurring : DateLE(x.next_due_date, TodayDate)}
    IN  /\ out = NoOut
        /\ mat.pc = "idle"
        /\ mat.lastRun < today
        /\ mat' = [pc |-> "loop", lastRun |-> today, rows |-> due]
        /\ hist' = [hist EXCEPT !.read = {x.id : x \in due}, !.done = {},
                                !.failed = {}]
        /\ UNCHANGED <<accounts, expenses, incomes, budgets, recurring, nextID,
                       tx, out, deleted, today>>
        /\ UNCHANGED authVars

\* rows.Next() delivers re; db.Begin and the INSERT INTO expenses
MatInsert(re) ==
    /\ out = NoOut
    /\ mat.pc = "loop"
    /\ re \in mat.rows
    /\ WriteFree
    /\ MatRoom
    /\ mat' = [pc |-> "inserted", lastRun |-> mat.lastRun,
               rows |-> CursorRest(mat.rows, re), re |-> re,
               id |-> LastInsertId(expenses, nextID["expenses"]),
               expenses |-> expenses \cup
                   {MaterializedExpense(LastInsertId(expenses, nextID["expenses"]),
                                        re)},
               recurring |-> recurring]
    /\ UNCHANGED <<accounts, expenses, incomes, budgets, recurring, nextID, tx,
                   out, deleted, today, hist>>
    /\ UNCHANGED authVars

\* the UPDATE of next_due_date inside the transaction
MatUpdate ==
    /\ out = NoOut
    /\ mat.pc = "inserted"
    /\ mat' = [mat EXCEPT !.pc = "updated",
                          !.recurring = AdvanceDefinition(mat.recurring, mat.re)]
    /\ UNCHANGED <<accounts, expenses, incomes, budgets, recurring, nextID, tx,
                   out, deleted, today, hist>>
    /\ UNCHANGED authVars

\* tx.Commit; out records what was committed, for the definition mat.re
MatCommit ==
    /\ out = NoOut
    /\ mat.pc = "updated"
    /\ expenses' = mat.expenses
    /\ recurring' = mat.recurring
    /\ nextID' = [nextID EXCEPT !["expenses"] = @ + 1]
    /\ mat' = [pc |-> "loop", lastRun |-> mat.lastRun, rows |-> mat.rows]
    /\ out' = Out("materialize", "expenses", mat.re.user_id, mat.id, mat.re, 0,
                  mat.rows)
    /\ hist' = [hist EXCEPT
                   !.gen = @ \cup
                       {[def |-> mat.re.id, id |-> x.id, date |-> x.date,
                         run |-> mat.lastRun] :
                            x \in {y \in mat.expenses : y.id = mat.id}},
                   !.done = @ \cup {mat.re.id}]
    /\ UNCHANGED <<accounts, incomes, budgets, tx, deleted, today>>
    /\ UNCHANGED authVars

\* rows.Next() returns false: the run is over
MatDone ==
    /\ out = NoOut
    /\ mat.pc = "loop"
    /\ mat.rows = {}
    /\ mat' = [pc |-> "idle", lastRun |-> mat.lastRun, rows |-> {}]
    /\ UNCHANGED <<accounts, expenses, incomes, budgets, recurring, nextID, tx,
                   out, deleted, today, hist>>
    /\ UNCHANGED authVars

\* ---------------------------------------------------- materializer faults
\* mutant: a failed step ends the run (return)
ReturnFromLoop(rows) == {}

\* a failed step is followed by continue: the cursor keeps its rows
ContinueLoop(rows) == rows

\* the steps of the loop body that can fail before anything is written
MatRowFaults == {"scan", "parse", "begin", "insert"}

\* rows.Scan, parseTimestamp, db.Begin or the INSERT fails for the row re
\* the cursor delivered: the error is logged (after tx.Rollback for the
\* INSERT) and the loop continues
MatRowError(re, fault) ==
    /\ out = NoOut
    /\ mat.pc = "loop"
    /\ re \in mat.rows
    /\ mat' = [pc |-> "loop", lastRun |-> mat.lastRun,
               rows |-> ContinueLoop(CursorRest(mat.rows, re))]
    /\ out' = Out("materialize_failed", "expenses", re.user_id, 0, re, 0, fault)
    /\ hist' = [hist EXCEPT !.failed = @ \cup {re.id}]
    /\ UNCHANGED <<accounts, expenses, incomes, budgets, recurring, nextID, tx,
                   deleted, today>>
    /\ UNCHANGED authVars

\* the UPDATE of next_due_date fails: tx.Rollback, and the loop continues
MatUpdateError ==
    /\ out = NoOut
    /\ mat.pc = "inserted"
    /\ expenses' = RolledBack(expenses, mat.expenses)
    /\ recurring' = RolledBack(recurring, mat.recurring)
    /\ mat' = [pc |-> "loop", lastRun |-> mat.lastRun,
               rows |-> ContinueLoop(mat.rows)]
    /\ out' = Out("materialize_failed", "expenses", mat.re.user_id, mat.id,
                  mat.re, 0, "update")
    /\ hist' = [hist EXCEPT !.failed = @ \cup {mat.re.id}]
    /\ UNCHANGED <<accounts, incomes, budgets, nextID, tx, deleted, today>>
    /\ UNCHANGED authVars

\* tx.Commit fails: the store has rolled the transaction back, and the loop
\* continues
MatCommitError ==
    /\ out = NoOut
    /\ mat.pc = "updated"
    /\ expenses' = RolledBack(expenses, mat.expenses)
    /\ recurring' = RolledBack(recurring, mat.recurring)
    /\ mat' = [pc |-> "loop", lastRun |-> mat.lastRun,
               rows |-> ContinueLoop(mat.rows)]
    /\ out' = Out("materialize_failed", "expenses", mat.re.user_id, mat.id,
                  mat.re, 0, "commit")
    /\ hist' = [hist EXCEPT !.failed = @ \cup {mat.re.id}]
    /\ UNCHANGED <<accounts, incomes, budgets, nextID, tx, deleted, today>>
    /\ UNCHANGED authVars

\* --------------------------------------------------------- specifications
\* Two users have registered; each holds the session of their registration.
RegisteredUsers ==
    {[id |-> 1, email |-> "a@x.io", password_hash |-> bcryptHash("correct-horse")],
     [id |-> 2, email |-> "b@x.io", password_hash |-> bcryptHash("correct-horse")]}

InitData ==
    /\ now = 0
    /\ users = RegisteredUsers
    /\ nextUserID = 3
    /\ sessions = {NewSessionRow(u.id, u.id, sessionTTL) : u \in RegisteredUsers}
    /\ txOwner = 0
    /\ txSessions = {}
    /\ nextToken = 3
    /\ req = [p \in Procs |-> IdleReq]
    /\ resp = NoResp
    /\ issuedTo = [t \in RawTokens |-> IF t <= 2 THEN t ELSE 0]
    /\ latest = [u \in UserIDs |-> IF u <= 2 THEN u ELSE 0]
    /\ loggedOut = {}
    /\ registered = [e \in NormalEmails |-> 1]
    /\ DataInit

\* what a client can send as body: one of the bodies above, or one that does
\* not decode
WithBad(bodies) == bodies \cup {BadBody}

\* the resource handlers, serving the two users concurrently
NextData ==
    \/ Reply
    \/ \E u \in UserIDs : getExpenses(u)
    \/ \E u \in UserIDs, body \in WithBad(ExpenseBodies), fk \in BOOLEAN :
          createExpense(u, body, fk)
    \/ createExpenseUpdate
    \/ createExpenseCommit
    \/ \E u \in UserIDs, id \in IDs : getExpense(u, id)
    \/ \E u \in UserIDs, id \in IDs, body \in WithBad(ExpenseUpdates) :
          updateExpense(u, id, body)
    \/ \E u \in UserIDs, id \in IDs : deleteExpense(u, id)
    \/ \E u \in UserIDs, query \in AggregateQueries : aggregatesHandler(u, query)
    \/ \E u \in UserIDs : getBudgets(u)
    \/ \E u \in UserIDs, body \in WithBad(BudgetBodies) : createBudget(u, body)
    \/ \E u \in UserIDs, id \in IDs : getBudget(u, id)
    \/ \E u \in UserIDs, id \in IDs, body \in WithBad(BudgetUpdates) :
          updateBudget(u, id, body)
    \/ \E u \in UserIDs, id \in IDs : deleteBudget(u, id)
    \/ \E u \in UserIDs : getRecurringExpenses(u)
    \/ \E u \in UserIDs, body \in WithBad(RecurringBodies) :
          createRecurringExpense(u, body)
    \/ \E u \in UserIDs, id \in IDs : getRecurringExpense(u, id)
    \/ \E u \in UserIDs, id \in IDs, body \in WithBad(RecurringUpdates) :
          updateRecurringExpense(u, id, body)
    \/ \E u \in UserIDs, id \in IDs : deleteRecurringExpense(u, id)
    \/ \E u \in UserIDs : getIncomes(u)
    \/ \E u \in UserIDs, body \in WithBad(IncomeBodies), fk \in BOOLEAN :
          createIncome(u, body, fk)
    \/ createIncomeUpdate
    \/ createIncomeCommit
    \/ \E u \in UserIDs, id \in IDs : getIncome(u, id)
    \/ \E u \in UserIDs, id \in IDs, body \in WithBad(IncomeUpdates) :
          updateIncome(u, id, body)
    \/ \E u \in UserIDs, id \in IDs : deleteIncome(u, id)
    \/ \E u \in UserIDs : getAccounts(u)
    \/ \E u \in UserIDs, body \in WithBad(AccountBodies) : createAccount(u, body)
    \/ \E u \in UserIDs, id \in IDs : getAccount(u, id)
    \/ \E u \in UserIDs, id \in IDs, body \in WithBad(AccountUpdates) :
          updateAccount(u, id, body)
    \/ \E u \in UserIDs, id \in IDs, fk \in BOOLEAN : deleteAccount(u, id, fk)

SpecData == InitData /\ [][NextData]_vars

\* the materializer next to the handlers of the recurring definitions
NextMat ==
    \/ Reply
    \/ DayTick
    \/ \E u \in UserIDs, body \in WithBad(RecurringBodies) :
          createRecurringExpense(u, body)
    \/ \E u \in UserIDs, id \in IDs, body \in WithBad(RecurringUpdates) :
          updateRecurringExpense(u, id, body)
    \/ \E u \in UserIDs, id \in IDs : deleteRecurringExpense(u, id)
    \/ processRecurringExpenses
    \/ \E re \in mat.rows : MatInsert(re)
    \/ MatUpdate
    \/ MatCommit
    \/ MatDone

SpecMat == InitData /\ [][NextMat]_vars

\* the same with failing steps of the materializer
NextMatFault ==
    \/ NextMat
    \/ \E re \in mat.rows, fault \in MatRowFaults : MatRowError(re, fault)
    \/ MatUpdateError
    \/ MatCommitError

SpecMatFault == InitData /\ [][NextMatFault]_vars

\* ================================================================ claims
TokenHashes(table) == {s.token_hash : s \in table}

\* the remaining lifetime the middleware computed for the response's request
Remaining == resp.expiresAt - now

AuthFound == resp.kind = "auth" /\ resp.found

Rejected401 == resp.status = 401 /\ resp.handlerUser = 0

\* C1: in every reachable state the sessions table holds at most one row
\* per user_id
C1_OneSessionPerUser ==
    \A s1 \in sessions, s2 \in sessions : s1.user_id = s2.user_id => s1 = s2

\* a login has replaced the session row its user had
C1_Witness ==
    /\ resp.kind = "login"
    /\ resp.status = 200
    /\ resp.before # {}
    /\ Cardinality(sessions) = 1
    /\ sessions # resp.before

\* C2: an authenticated request that presents a token whose user had been
\* issued a newer session before the request began is answered 401 and its
\* handler is not invoked
C2_SupersededTokenRejected ==
    (resp.kind = "auth" /\ resp.stale) => Rejected401

C2_Witness ==
    /\ resp.kind = "auth"
    /\ resp.stale
    /\ resp.status = 401
    /\ resp.cookie \in RawTokens

C4_LogoutIdempotent ==
    resp.kind = "logout" =>
        /\ resp.status = 204
        /\ resp.setCookie = EmptyCookie
        /\ LogoutEffect(sessions, resp.cookie) = sessions
        /\ sessions = LogoutEffect(resp.before, resp.cookie)

\* a second logout with a token an earlier logout already carried
C4_Witness ==
    /\ resp.kind = "logout"
    /\ resp.revoked
    /\ resp.status = 204
    /\ sessions = resp.before

\* the consequences C5 claims for an expired session
ExpiredHandling ==
    /\ Rejected401
    /\ resp.setCookie = EmptyCookie
    /\ hashSessionToken(resp.cookie) \notin TokenHashes(sessions)

\* C5 as claimed: a session row with expires_at <= now, equality included,
\* is answered 401, deleted, the cookie cleared, the handler not invoked
C5_ExpiredAtOrBeforeNow ==
    (AuthFound /\ resp.expiresAt <= now) => ExpiredHandling

\* C5 as amended: a session row with expires_at < now is answered 401,
\* deleted, the cookie cleared and the handler not invoked; a row with
\* expires_at = now is still served
C5_ExpiredBeforeNow ==
    /\ (AuthFound /\ resp.expiresAt < now) => ExpiredHandling
    /\ (AuthFound /\ resp.expiresAt = now) => resp.handlerUser # 0

C5_Witness ==
    /\ AuthFound
    /\ resp.expiresAt < now
    /\ resp.status = 401
    /\ hashSessionToken(resp.cookie) \in TokenHashes(resp.before)
    /\ hashSessionToken(resp.cookie) \notin TokenHashes(sessions)

\* the request found a session that has not expired and has less than
\* TTL/3 left
InRefreshWindow ==
    /\ AuthFound
    /\ Remaining >= 0
    /\ Remaining < sessionRefreshDelta

C7_NoRefreshNoWrite ==
    (AuthFound /\ Remaining >= sessionRefreshDelta) =>
        /\ sessions = resp.before
        /\ resp.writes = 0
        /\ resp.setCookie = NoCookie

\* served with exactly TTL/3 left
C7_Witness ==
    /\ AuthFound
    /\ Remaining = sessionRefreshDelta
    /\ resp.handlerUser # 0

\* C8: a refresh changes expires_at of the row matching the presented token
\* and nothing else (no row added or removed, token_hash and user_id of
\* every row kept, every other row untouched), and the cookie it reissues
\* carries the raw token of the request
C8_RefreshFrame ==
    InRefreshWindow =>
        /\ resp.setCookie = resp.cookie
        /\ {[h |-> s.token_hash, u |-> s.user_id] : s \in sessions}
             = {[h |-> s.token_hash, u |-> s.user_id] : s \in resp.before}
        /\ Cardinality(sessions) = Cardinality(resp.before)
        /\ \A s \in resp.before :
              s.token_hash # hashSessionToken(resp.cookie) => s \in sessions

C8_Witness ==
    /\ InRefreshWindow
    /\ resp.setCookie = resp.cookie
    /\ sessions # resp.before

\* C9: the wrapped handler is invoked only by a request whose cookie token
\* hashed to a session row at the lookup, a row that had not expired when
\* the middleware read the clock, and with the user id of that row, the
\* user the token was issued to; with no row, an expired row or a failed
\* lookup it is not invoked
C9_HandlerOnlyForLiveSession ==
    /\ resp.handlerUser # 0 =>
          /\ AuthFound
          /\ resp.cookie \in RawTokens
          /\ now <= resp.expiresAt
          /\ resp.handlerUser = resp.userID
          /\ resp.handlerUser = issuedTo[resp.cookie]
    /\ (resp.kind = "auth" /\ resp.status # 200) => resp.handlerUser = 0

C9_Witness ==
    /\ resp.kind = "auth"
    /\ resp.handlerUser # 0
    /\ resp.handlerUser = issuedTo[resp.cookie]

\* a failed lookup is answered 500 without the handler
C9_WitnessLookupError ==
    /\ resp.kind = "auth"
    /\ resp.status = 500
    /\ resp.handlerUser = 0

\* C10: a request without the session cookie, or with an empty one, is
\* answered 401 without any store statement, and the handler is not invoked
C10_NoCookieNoStore ==
    (resp.kind = "auth" /\ resp.cookie \in {NoCookie, EmptyCookie}) =>
        /\ Rejected401
        /\ resp.reads = 0
        /\ resp.writes = 0
        /\ sessions = resp.before

C10_Witness ==
    /\ resp.kind = "auth"
    /\ resp.cookie = EmptyCookie
    /\ resp.status = 401
    /\ resp.reads = 0

RefreshFailed == resp.kind = "auth" /\ resp.fault = "refresh"

C12_OneRegistrationPerEmail ==
    /\ \A u1 \in users, u2 \in users :
          TrimLower(u1.email) = TrimLower(u2.email) => u1 = u2
    /\ \A e \in NormalEmails : registered[e] <= 1
    /\ resp.kind = "register" =>
          /\ resp.status \in {201, 400, 409}
          /\ resp.status = 409 =>
                \E u \in users : /\ TrimLower(u.email) = TrimLower(resp.email)
                                 /\ u.id # resp.userID
          /\ resp.status = 201 =>
                /\ registered[TrimLower(resp.email)] = 1
                /\ \E u \in users : u.id = resp.userID /\ u.email = resp.email

\* a registration answered 409 while the registration that inserted the
\* row for the same address is still being served
C12_Witness ==
    /\ resp.kind = "register"
    /\ resp.status = 409
    /\ \E p \in Procs : /\ req[p].kind = "register"
                         /\ req[p].pc # "idle"
                         /\ req[p].email = resp.email
    /\ registered[resp.email] = 0

\* the login named an email that has no users row
LoginNoUser ==
    /\ resp.kind = "login"
    /\ \A u \in users : u.email # resp.email

\* the login named an existing user and a password that is not theirs
LoginWrongPassword ==
    /\ resp.kind = "login"
    /\ \E u \in users : /\ u.email = resp.email
                         /\ ~bcryptCompare(u.password_hash, resp.password)

\* C13: a login for an email without a user and a login with a wrong
\* password get the same answer (401, the same body, no Set-Cookie), and
\* neither changes the sessions table
C13_LoginFailuresAlike ==
    (LoginNoUser \/ LoginWrongPassword) =>
        /\ resp.status = 401
        /\ resp.body = "Invalid credentials"
        /\ resp.setCookie = NoCookie
        /\ resp.writes = 0
        /\ sessions = resp.before

\* a wrong password for a user whose session stays in the table
C13_Witness ==
    /\ LoginWrongPassword
    /\ resp.password # ""
    /\ resp.status = 401
    /\ \E u \in users, s \in sessions : u.email = resp.email /\ s.user_id = u.id

\* an unknown email while another user has a session
C13_WitnessNoUser ==
    /\ LoginNoUser
    /\ resp.email \in NormalEmails
    /\ resp.status = 401
    /\ sessions # {}

\* the raw tokens generateSessionToken has drawn so far
DrawnTokens == {t \in RawTokens : t < nextToken}

\* C14: every session row, committed or inside a transaction, is keyed by
\* the hash of a raw token and by no raw token that was ever drawn, and a
\* request presenting a stored token_hash as its cookie is answered 401
\* without the handler
C14_OnlyHashesStored ==
    /\ \A s \in sessions \cup txSessions :
          /\ s.token_hash \notin DrawnTokens
          /\ \E t \in DrawnTokens : s.token_hash = hashSessionToken(t)
    /\ (resp.kind = "auth" /\ resp.cookie \in TokenHashes(resp.before)) =>
          Rejected401

\* a stored token_hash was presented and refused
C14_Witness ==
    /\ resp.kind = "auth"
    /\ resp.cookie \in TokenHashes(resp.before)
    /\ resp.cookie \in TokenHashes(sessions)
    /\ resp.status = 401

\* ------------------------------------------------------------- C15 .. C20
\* the last response answers a GET, PUT or DELETE by id that named a record
\* of another user
NonOwnerByID ==
    /\ out # NoOut
    /\ out.op \in {"get", "put", "delete"}
    /\ \E x \in out.before[out.table] : x.id = out.id /\ x.user_id # out.user

\* the last response answers a PUT whose body the handler rejects before it
\* consults the store
PutRejected ==
    /\ out.op = "put"
    /\ \/ out.body = BadBody
       \/ /\ out.table = "recurring_expenses"
          /\ ~isValidFrequency(out.body.frequency)

\* the last response is a list
ListServed == out # NoOut /\ out.op = "list"

C15_WitnessList ==
    /\ ListServed
    /\ out.result # {}
    /\ \E x \in out.before[out.table] : x.user_id # out.user

\* the last response answers a GET by id of a record whose DELETE was
\* answered 204 earlier
GetOfDeleted ==
    /\ out # NoOut
    /\ out.op = "get"
    /\ <<out.table, out.id>> \in deleted

\* the last response answers a create with 201
Created == out # NoOut /\ out.op = "create" /\ out.status = 201

\* C16 as stated: once a DELETE of a record id was answered 204, every later
\* GET of that id, by any user, is answered 404.
C16_DeletedGet404 == GetOfDeleted => out.status = 404

\* C16 amended: a GET of a deleted id is answered 404 for expenses, budgets,
\* recurring expenses and incomes and 405 for accounts; no table holds a
\* record with a deleted id again, and a create never assigns a deleted id
\* or the id of a record the table holds.
C16_DeletedIdNeverBack ==
    /\ GetOfDeleted =>
          out.status = IF out.table = "accounts" THEN 405 ELSE 404
    /\ \A d \in deleted :
          /\ \A x \in Snapshot[d[1]] : x.id # d[2]
          /\ d[2] < nextID[d[1]]
    /\ Created =>
          /\ <<out.table, out.id>> \notin deleted
          /\ \A x \in out.before[out.table] : x.id # out.id

\* a GET of a deleted id was answered 404 after a later create in the same
\* table
C16_Witness ==
    /\ GetOfDeleted
    /\ out.status = 404
    /\ \E x \in Snapshot[out.table] : x.id > out.id

\* the balance of account id in a table of accounts (0 when there is none)
BalanceOf(table, id) ==
    IF \E a \in table : a.id = id
    THEN (CHOOSE a \in table : a.id = id).balance
    ELSE 0

\* the last response is the 201 of a POST /expenses or POST /incomes
PostedWithAccount == Created /\ out.table \in {"expenses", "incomes"}

\* C17: a POST /expenses answered 201 has decreased the balance of the
\* account named by account_id by exactly the amount, a POST /incomes
\* answered 201 has increased it by exactly the amount, and the record and
\* the balance change are committed together.
C17_BalanceFollowsRecord ==
    PostedWithAccount =>
       /\ out.result \in Snapshot[out.table]
       /\ \E a \in accounts : a.id = out.body.account_id
       /\ BalanceOf(accounts, out.body.account_id) =
             BalanceOf(out.before.accounts, out.body.account_id)
                + (IF out.table = "expenses" THEN 0 - out.body.amount
                   ELSE out.body.amount)

\* the last response answers a POST /expenses whose body decoded and has no
\* account_id
PostedWithoutAccount ==
    /\ out # NoOut
    /\ out.op = "create"
    /\ out.table = "expenses"
    /\ out.body # BadBody
    /\ out.body.account_id = 0

\* C18: a POST /expenses whose body has no account_id is answered 201 with
\* the amount echoed, and the expense is stored.
C18_ExpenseWithoutAccountCreated ==
    PostedWithoutAccount =>
       /\ out.status = 201
       /\ out.result.amount = out.body.amount
       /\ \E e \in expenses : e.id = out.id /\ e.user_id = out.user

\* the last response is a totals map
TotalsServed ==
    /\ out # NoOut
    /\ out.op \in {"totals_by_month", "totals_by_category"}

\* the group of expense e in the totals map of the last response
GroupOf(e) ==
    IF out.op = "totals_by_month" THEN MonthOf(e.date) ELSE e.category

\* the expenses of the caller in group g when the totals were computed
OwnInGroup(g) ==
    {e \in out.before.expenses : e.user_id = out.user /\ GroupOf(e) = g}

\* the sum of the amounts of rows, added up in the order of their ids
RECURSIVE AmountsUpTo(_, _)
AmountsUpTo(n, rows) ==
    IF n = 0 THEN 0
    ELSE AmountsUpTo(n - 1, rows)
            + (IF \E e \in rows : e.id = n
               THEN (CHOOSE e \in rows : e.id = n).amount ELSE 0)

\* C19: the totals by month and by category hold, for each group in which
\* the caller has an expense, the sum of the amounts of the caller's
\* expenses in that group, and no other group.
C19_TotalsOfOwnExpenses ==
    TotalsServed =>
       /\ out.status = 200
       /\ \A g \in {GroupOf(e) : e \in out.before.expenses}
                      \cup DOMAIN out.result :
             /\ g \in DOMAIN out.result <=> OwnInGroup(g) # {}
             /\ OwnInGroup(g) # {} =>
                   out.result[g] = AmountsUpTo(MaxRecords, OwnInGroup(g))

\* a total that adds two expenses of the caller
C19_Witness ==
    /\ TotalsServed
    /\ \E g \in DOMAIN out.result :
          /\ Cardinality(OwnInGroup(g)) = 2
          /\ out.result[g] = 12

\* a total of a group in which another user has an expense too
C19_WitnessOtherUser ==
    /\ TotalsServed
    /\ \E g \in DOMAIN out.result :
          \E e \in out.before.expenses : e.user_id # out.user /\ GroupOf(e) = g

\* the last response reports a definition the materializer committed
Materialized == out # NoOut /\ out.op = "materialize"

\* C20: the expense the materializer commits for a definition has the
\* definition's amount, category, note and owner, and its date is the
\* definition's next_due_date as read, not the advanced one.
C20_ExpenseCopiesDefinition ==
    Materialized =>
       \E e \in expenses :
          /\ expenses \ out.before.expenses = {e}
          /\ e.id = out.id
          /\ e.amount = out.body.amount
          /\ e.category = out.body.category
          /\ e.note = out.body.note
          /\ e.user_id = out.body.user_id
          /\ e.date = out.body.next_due_date
          /\ \A x \in recurring :
                x.id = out.body.id =>
                   /\ x.next_due_date =
                         NextDue(out.body.frequency, out.body.next_due_date)
                   /\ x.next_due_date # e.date

\* a monthly definition due on 31 January was materialized: the expense is
\* dated 31 January and the definition now is due on 2 March
C20_Witness ==
    /\ Materialized
    /\ out.body.frequency = "monthly"
    /\ \E e \in expenses : e.id = out.id /\ e.date = <<2024, 1, 31>>
    /\ \E x \in recurring :
          x.id = out.body.id /\ x.next_due_date = <<2024, 3, 2>>

\* ------------------------------------------------------------- C21 .. C30
\* the last day of month m of year y, when day d lies beyond it
ClampDay(y, m, d) == IF d > DaysIn(y, m) THEN DaysIn(y, m) ELSE d

\* one period of frequency after date on the calendar: 1 day, 7 days, the
\* same day of the next month, the same day of the next year (the last day
\* of that month where it has no such day)
OnePeriodLater(frequency, date) ==
    CASE frequency = "weekly" -> AddDate(date, 0, 0, 7)
      [] frequency = "monthly" ->
            LET y == IF date[2] = 12 THEN date[1] + 1 ELSE date[1]
                m == IF date[2] = 12 THEN 1 ELSE date[2] + 1
            IN  <<y, m, ClampDay(y, m, date[3])>>
      [] frequency = "yearly" ->
            <<date[1] + 1, date[2], ClampDay(date[1] + 1, date[2], date[3])>>
      [] OTHER -> AddDate(date, 0, 0, 1)

\* the row of the definition the last commit was for, as it was stored
\* right before the commit (none if it had been deleted)
StoredBefore == {x \in out.before.recurring_expenses : x.id = out.body.id}

\* the same row after the commit
StoredAfter == {x \in recurring : x.id = out.body.id}

\* the definition was stored, unchanged since the materializer read it,
\* when its materialization was committed
MaterializedAsRead == Materialized /\ StoredBefore = {out.body}

MaterializeFailed == out # NoOut /\ out.op = "materialize_failed"

\* the expenses the materializer has committed are in gen, one entry each
GeneratedIDs == {g.id : g \in hist.gen}

\* the generated expense of the last commit is stored and nothing else of
\* the expenses changed
ExpenseCommitted ==
    /\ \E e \in expenses : e.id = out.id /\ e \notin out.before.expenses
    /\ \A e \in out.before.expenses : e \in expenses

C22_WitnessCommitted ==
    /\ Materialized
    /\ StoredBefore = {out.body}
    /\ \E x \in StoredAfter : x.next_due_date # out.body.next_due_date

\* the definitions the current run still has to handle: those the cursor
\* has yet to deliver and the one whose transaction is open
PendingInRun ==
    {x.id : x \in mat.rows}
        \cup (IF mat.pc \in MatTxSteps THEN {mat.re.id} ELSE {})

\* C23: within one tick, a failure on one due definition (scan, date parse,
\* begin, insert, update or commit) does not keep any other due definition
\* from being materialized: every definition the run read is committed,
\* has failed itself or is still to be handled, the failed step has given
\* up the transaction, and the run ends only when none is left.
C23_FailureIsolated ==
    /\ hist.read = hist.done \cup hist.failed \cup PendingInRun
    /\ hist.done \cap hist.failed = {}
    /\ MaterializeFailed =>
          /\ mat.pc = "loop"
          /\ out.body.id \in hist.failed
          /\ mat.rows = {x \in mat.rows : x.id \notin hist.failed}
    /\ mat.pc = "idle" => hist.read = hist.done \cup hist.failed

\* a definition was materialized in a run in which a step had failed for
\* another one
C23_Witness ==
    /\ Materialized
    /\ hist.failed # {}
    /\ out.body.id \in hist.done

\* the definitions that have two generated expenses of the same run
TwiceInRun ==
    {g.def : g \in {h \in hist.gen :
                       \E k \in hist.gen :
                          k.def = h.def /\ k.run = h.run /\ k.id # h.id}}

\* C24: in one tick each definition is materialized at most once; a
\* definition still overdue after its advance gets its next expense from a
\* later tick.
C24_OncePerTick ==
    /\ TwiceInRun = {}
    /\ Materialized => out.body.id \notin {x.id : x \in mat.rows}

\* a definition that was still overdue after its advance got its second
\* expense in the next run
C24_Witness ==
    /\ Materialized
    /\ \E g \in hist.gen :
          /\ g.def = out.body.id
          /\ g.run < mat.lastRun
          /\ DateLE(NextDue(out.body.frequency, g.date),
                    AddDate(StartDay, 0, 0, g.run))

\* C27: when the materializer commits for a definition, the new
\* next_due_date is the value stored in the row right before the commit
\* plus one period of the stored frequency, so that a PUT committed between
\* the materializer's read and its write is not overwritten from the stale
\* read.
C27_AdvanceFromStoredValue ==
    Materialized =>
       \A x \in StoredBefore :
          \A y \in StoredAfter :
             y.next_due_date = NextDue(x.frequency, x.next_due_date)

\* the generated expenses of the definitions no PUT has given another
\* next_due_date
GeneratedUntouched == {g \in hist.gen : g.def \notin hist.touched}

\* C30: as long as no PUT changes a definition's next_due_date, the
\* materializer never generates two expenses of the same date for it, over
\* any number of ticks, failed and rolled back transactions included.
C30_NoDuplicateExpense ==
    \A g \in GeneratedUntouched :
       \A h \in GeneratedUntouched :
          (g.def = h.def /\ g.date = h.date) => g.id = h.id

\* the second expense of a definition no PUT has touched, committed in a run
\* in which a step failed for another definition
C30_Witness ==
    /\ Materialized
    /\ out.body.id \notin hist.touched
    /\ hist.failed # {}
    /\ \E g \in hist.gen : g.def = out.body.id /\ g.id # out.id

\* the session rows of user userID in a sessions table
SessionsOf(table, userID) == {s \in table : s.user_id = userID}

\* the last response is the 200 of a login
LoginDone == resp.kind = "login" /\ resp.status = 200

\* the last response is the 200 of a login that ran concurrently with
\* another login of the same user: the session it replaces belongs to a
\* token drawn after its own, by a login that began later and committed
\* earlier
LoginWonRace ==
    /\ LoginDone
    /\ \E s \in SessionsOf(resp.before, resp.userID) :
          \E t \in RawTokens :
             /\ t > resp.setCookie
             /\ s.token_hash = hashSessionToken(t)
             /\ issuedTo[t] = resp.userID

\* the last response answers a request that came with the token of a login
\* that had lost such a race
LoserTokenPresented ==
    /\ resp.kind = "auth"
    /\ resp.stale
    /\ resp.cookie \in RawTokens
    /\ issuedTo[resp.cookie] # 0
    /\ latest[issuedTo[resp.cookie]] # 0
    /\ latest[issuedTo[resp.cookie]] < resp.cookie

\* C25: when two logins of one user run concurrently and both are answered
\* 200, the user has exactly one session row afterwards, that of the login
\* that committed last, and the token of the other login is rejected with
\* 401.
C25_LastCommitWins ==
    /\ LoginDone =>
          /\ SessionsOf(sessions, resp.userID) =
                {NewSessionRow(resp.setCookie, resp.userID, resp.cookieExpires)}
          /\ latest[resp.userID] = resp.setCookie
    /\ LoginWonRace =>
          \A s \in SessionsOf(resp.before, resp.userID) : s \notin sessions
    /\ LoserTokenPresented => Rejected401

\* the login that drew its token first committed last and replaced the
\* session of the other login
C25_Witness ==
    /\ LoginWonRace
    /\ resp.userID = 1
    /\ Cardinality(SessionsOf(sessions, 1)) = 1

\* the token of the login that committed first was presented and rejected
C25_WitnessRejected == LoserTokenPresented /\ resp.status = 401

\* the statements of issueSession that can fail
IssueFaults == {"issue_delete", "issue_insert", "issue_commit"}

\* the last response is the 500 after a failed issueSession
IssueFailed == resp.kind \in {"register", "login"} /\ resp.fault \in IssueFaults

\* C26: session issuance is all-or-nothing: if the delete of the prior
\* sessions, the insert or the commit fails, the sessions table is as it
\* was before (the user's previous session still is there), no cookie is
\* set, the write lock is given up and the request is answered 500; no
\* stored session belongs to a token that was not handed out with a 200 or
\* 201.
C26_IssuanceAllOrNothing ==
    /\ IssueFailed =>
          /\ resp.status = 500
          /\ resp.setCookie = NoCookie
          /\ sessions = resp.before
          /\ resp.fault # "issue_delete" => txOwner = 0
    /\ \A t \in RawTokens :
          hashSessionToken(t) \in TokenHashes(sessions) => issuedTo[t] # 0
    /\ txOwner = 0 => txSessions = {}

\* a login failed at its commit, after its DELETE had removed the user's
\* session inside the transaction, and that session still is stored
C26_Witness ==
    /\ IssueFailed
    /\ resp.kind = "login"
    /\ resp.fault = "issue_commit"
    /\ SessionsOf(sessions, resp.userID) # {}

\* the last response ends a request whose session row was found by the
\* lookup and was gone when the request came to its expiry check and refresh
RowGoneAfterLookup ==
    /\ resp.kind = "auth"
    /\ resp.found
    /\ hashSessionToken(resp.cookie) \notin TokenHashes(resp.before)

\* the last response answers a request whose token a logout or a later
\* login had taken the row of before the request came in
GoneTokenPresented ==
    /\ resp.kind = "auth"
    /\ resp.cookie \in RawTokens
    /\ resp.stale \/ resp.revoked
    /\ hashSessionToken(resp.cookie) \notin TokenHashes(resp.before)

\* C28: a refresh never re-creates a session row: if logout or a new login
\* of the user deletes the row between the lookup and the refresh write,
\* the table has no row for the old token afterwards, and the next request
\* with the old token is answered 401.
C28_RefreshNeverRecreates ==
    /\ RowGoneAfterLookup =>
          /\ hashSessionToken(resp.cookie) \notin TokenHashes(sessions)
          /\ sessions = resp.before
    /\ GoneTokenPresented =>
          /\ Rejected401
          /\ hashSessionToken(resp.cookie) \notin TokenHashes(sessions)

\* a request in its refresh window ran its UPDATE after the row was
\* deleted: it was answered 200 with the cookie set again, and no row is
\* stored for the token
C28_Witness ==
    /\ RowGoneAfterLookup
    /\ resp.status = 200
    /\ resp.setCookie = resp.cookie
    /\ resp.writes = 1

\* the last response is the 500 of a registration whose issueSession failed
RegisterIssueFailed == resp.kind = "register" /\ resp.fault \in IssueFaults

\* the addresses whose registration inserted the users row and was answered
\* 500: a users row has the address, no registration with it was answered
\* 201 and none is under way
Orphaned ==
    {e \in NormalEmails :
        /\ \E u \in users : u.email = e
        /\ registered[e] = 0
        /\ \A p \in Procs : ~(req[p].kind = "register" /\ req[p].email = e)}

\* the session rows a login has committed: those of tokens handed out
\* with a 200
HandedOut ==
    {s \in sessions : \E t \in RawTokens :
                         /\ s.token_hash = hashSessionToken(t)
                         /\ issuedTo[t] = s.user_id}

\* C29: if registration has inserted the users row and session issuance
\* then fails, the request is answered 500 and the users row stays, without
\* a session of that registration; the same registration repeated is
\* answered 409, and the account gets a session only by a login.
C29_RegisteredWithoutSession ==
    /\ RegisterIssueFailed =>
          /\ resp.status = 500
          /\ resp.setCookie = NoCookie
          /\ resp.email \in Orphaned
          /\ \E u \in users : u.id = resp.userID /\ u.email = resp.email
          /\ SessionsOf(sessions, resp.userID) \subseteq HandedOut
    /\ (/\ resp.kind = "register"
        /\ resp.fault = "none"
        /\ resp.email \in Orphaned
        /\ validatePassword(resp.password)) => resp.status = 409
    /\ \A e \in Orphaned :
          \A u \in users :
             u.email = e => SessionsOf(sessions, u.id) \subseteq HandedOut

\* the registration of an address whose users row an earlier, failed
\* registration left behind was answered 409
C29_Witness ==
    /\ resp.kind = "register"
    /\ resp.status = 409
    /\ resp.email \in Orphaned

\* a login to such an account was answered 200
C29_WitnessLogin == LoginDone /\ resp.email \in Orphaned

====
